---- MODULE Spec2Model ----
(***************************************************************************)
(* Job-scan scrapers: job_scan.py (run) and the final variant of the       *)
(* script (run_scraper, parse_job_data, scrape_linkedin_authenticated).    *)
(* Text is modelled as sequences of one-character strings so that          *)
(* lower(), strip(), split() and substring containment are computed, not   *)
(* assumed.                                                                *)
(***************************************************************************)
EXTENDS Integers, Sequences, FiniteSets, TLC

VARIABLES
    prog,                  \* which entry point runs: "run" (job_scan.py) or "run_scraper"
    pc,                    \* position of the entry point in its loops
    kw,                    \* index of the keyword of the for-kw loop
    page_num,              \* page_num / current_page_num
    i,                     \* index of the for-card loop
    ncards,                \* len(cards) as read when the for-card loop started
    seen_urls,             \* run_scraper: seen_urls
    seen_signatures,       \* run_scraper: seen_signatures
    new_jobs_buffer,       \* run_scraper: new_jobs_buffer
    total_saved_this_run,  \* run_scraper: total_saved_this_run
    prev_description,      \* prev_description of the running provider loop
    total_saved,           \* job_scan.py run: total_saved
    out_file,              \* OUTPUT_FILE: whether it exists, and its rows
    quits,                 \* number of driver.quit() calls
    exc,                   \* TRUE when an exception is propagating out of the try block
    ev,                    \* what the last card iteration read and how it ended
    sy,                    \* the synchronisation poll loop of parse_job_data, tick by tick
    fn,                    \* a pure function applied to one input
    df,                    \* verify_and_clean_data: the frame read from OUTPUT_FILE
    futures,               \* verify_and_clean_data: the calls executor.map submitted
    backup_file            \* the backup file next to OUTPUT_FILE

verifyVars == <<df, futures, backup_file>>
runVars == <<prog, pc, kw, page_num, i, ncards, seen_urls, seen_signatures,
             new_jobs_buffer, total_saved_this_run, prev_description,
             total_saved, out_file, quits, exc, ev, verifyVars>>
vars == <<prog, pc, kw, page_num, i, ncards, seen_urls, seen_signatures,
          new_jobs_buffer, total_saved_this_run, prev_description,
          total_saved, out_file, quits, exc, ev, sy, fn, verifyVars>>

-----------------------------------------------------------------------------
(* Text *)

UpperChars == <<"A","B","C","D","E","F","G","H","I","J","K","L","M",
                "N","O","P","Q","R","S","T","U","V","W","X","Y","Z">>
LowerChars == <<"a","b","c","d","e","f","g","h","i","j","k","l","m",
                "n","o","p","q","r","s","t","u","v","w","x","y","z">>

\* str.lower() on one character
LowerChar(c) ==
    IF \E k \in 1..26 : UpperChars[k] = c
    THEN LowerChars[CHOOSE k \in 1..26 : UpperChars[k] = c]
    ELSE c

\* str.lower()
Lower(s) == [k \in 1..Len(s) |-> LowerChar(s[k])]

\* Python's  sub in s
Contains(s, sub) ==
    \E k \in 0..(Len(s) - Len(sub)) : \A j \in 1..Len(sub) : s[k + j] = sub[j]

\* s.startswith(p)
StartsWith(s, p) == Len(p) <= Len(s) /\ \A j \in 1..Len(p) : s[j] = p[j]

\* s[:n]
Prefix(s, n) == SubSeq(s, 1, IF n < Len(s) THEN n ELSE Len(s))

IsSpace(c) == c \in {" ", "\n", "\t"}

RECURSIVE LStrip(_)
LStrip(s) == IF s # <<>> /\ IsSpace(Head(s)) THEN LStrip(Tail(s)) ELSE s

RECURSIVE RStrip(_)
RStrip(s) == IF s # <<>> /\ IsSpace(s[Len(s)]) THEN RStrip(SubSeq(s, 1, Len(s) - 1)) ELSE s

\* str.strip()
Strip(s) == RStrip(LStrip(s))

\* str.split(): the words between runs of whitespace
RECURSIVE SplitFrom(_, _, _)
SplitFrom(s, cur, acc) ==
    IF s = <<>> THEN (IF cur = <<>> THEN acc ELSE Append(acc, cur))
    ELSE IF IsSpace(Head(s))
         THEN SplitFrom(Tail(s), <<>>, IF cur = <<>> THEN acc ELSE Append(acc, cur))
         ELSE SplitFrom(Tail(s), Append(cur, Head(s)), acc)
Split(s) == SplitFrom(s, <<>>, <<>>)

\* sep.join(parts)
RECURSIVE Join(_, _)
Join(sep, parts) ==
    IF parts = <<>> THEN <<>>
    ELSE IF Len(parts) = 1 THEN parts[1]
    ELSE parts[1] \o sep \o Join(sep, Tail(parts))

\* s.split("?")[0]
RECURSIVE BeforeQuery(_)
BeforeQuery(s) ==
    IF s = <<>> \/ Head(s) = "?" THEN <<>> ELSE <<Head(s)>> \o BeforeQuery(Tail(s))

\* any(k in text for k in keywords)
HasAny(text, keywords) == \E k \in 1..Len(keywords) : Contains(text, keywords[k])

NA == <<"N","/","A">>

-----------------------------------------------------------------------------
(* CONFIG of the final variant *)

BAD_KEYWORDS ==
    << <<"i","n","t","e","r","n">>,
       <<"c","o","-","o","p">>,
       <<"c","o","o","p">>,
       <<"s","t","u","d","e","n","t">>,
       <<"s","u","m","m","e","r">>,
       <<"p","l","a","c","e","m","e","n","t">>,
       <<"m","a","n","a","g","e","r">>,
       <<"d","i","r","e","c","t","o","r">>,
       <<"h","e","a","d"," ","o","f">>,
       <<"v","p">>,
       <<"p","r","e","s","i","d","e","n","t">>,
       <<"c","h","i","e","f">>,
       <<"p","r","i","n","c","i","p","a","l">>,
       <<"l","e","a","d">>,
       <<"s","a","l","e","s">>,
       <<"c","u","s","t","o","m","e","r"," ","s","e","r","v","i","c","e">>,
       <<"t","e","c","h","n","i","c","i","a","n">>,
       <<"s","u","p","p","o","r","t">>,
       <<"c","l","e","r","k">>,
       <<"a","d","m","i","n">>,
       <<"m","a","r","k","e","t","i","n","g">>,
       <<"a","c","c","o","u","n","t"," ","e","x","e","c","u","t","i","v","e">>,
       <<"d","r","i","v","e","r">>,
       <<"w","a","r","e","h","o","u","s","e">>,
       <<"n","u","r","s","e">>,
       <<"b","i","l","i","n","g","u","a","l">>,
       <<"b","u","s","i","n","e","s","s"," ","a","n","a","l","y","s","t">>,
       <<"b","u","s","i","n","e","s","s"," ","s","y","s","t","e","m","s"," ","a","n","a","l","y","s","t">>,
       <<"b","u","s","i","n","e","s","s"," ","s","y","s","t","e","m"," ","a","n","a","l","y","s","t">>,
       <<"f","i","n","a","n","c","i","a","l"," ","a","n","a","l","y","s","t">> >>

STRONG_KEYWORDS ==
    << <<"d","a","t","a"," ","s","c","i","e","n","t","i","s","t">>,
       <<"d","a","t","a"," ","e","n","g","i","n","e","e","r">>,
       <<"m","a","c","h","i","n","e"," ","l","e","a","r","n","i","n","g">>,
       <<"a","i"," ","e","n","g","i","n","e","e","r">>,
       <<"a","n","a","l","y","t","i","c","s">>,
       <<"c","o","m","p","u","t","e","r"," ","v","i","s","i","o","n">>,
       <<"n","l","p">>,
       <<"b","u","s","i","n","e","s","s"," ","i","n","t","e","l","l","i","g","e","n","c","e">>,
       <<"d","e","e","p"," ","l","e","a","r","n","i","n","g">>,
       <<"d","a","t","a"," ","a","n","a","l","y","s","t">>,
       <<"q","u","a","n","t","i","t","a","t","i","v","e"," ","r","e","s","e","a","r","c","h","e","r">>,
       <<"s","t","a","t","i","s","t","i","c","a","l"," ","m","o","d","e","l","i","n","g">>,
       <<"s","t","a","t","i","s","t","i","c","i","a","n">> >>

AMBIGUOUS_KEYWORDS ==
    << <<"a","n","a","l","y","s","t">>,
       <<"i","n","s","i","g","h","t","s">>,
       <<"c","o","n","s","u","l","t","a","n","t">>,
       <<"s","c","i","e","n","t","i","s","t">>,
       <<"r","e","s","e","a","r","c","h","e","r">>,
       <<"s","t","r","a","t","e","g","i","s","t">>,
       <<"s","p","e","c","i","a","l","i","s","t">>,
       <<"a","s","s","o","c","i","a","t","e">> >>

TECH_KEYWORDS ==
    << <<"s","q","l">>,
       <<"p","y","t","h","o","n">>,
       <<" ","r"," ">>,
       <<"r","-","p","r","o","g","r","a","m","m","i","n","g">>,
       <<"t","a","b","l","e","a","u">>,
       <<"p","o","w","e","r"," ","b","i">>,
       <<"p","o","w","e","r","b","i">>,
       <<"a","w","s">>,
       <<"a","z","u","r","e">>,
       <<"g","c","p">>,
       <<"s","n","o","w","f","l","a","k","e">>,
       <<"e","t","l">>,
       <<"p","i","p","e","l","i","n","e">>,
       <<"m","o","d","e","l","i","n","g">>,
       <<"m","o","d","e","l","s">>,
       <<"m","a","c","h","i","n","e"," ","l","e","a","r","n","i","n","g">>,
       <<"s","t","a","t","i","s","t","i","c","a","l">>,
       <<"l","o","o","k","e","r">>,
       <<"b","i","g","q","u","e","r","y">>,
       <<"s","p","a","r","k">>,
       <<"h","a","d","o","o","p">> >>

(* CONFIG of job_scan.py; its AMBIGUOUS_KEYWORDS are the same list *)

SCAN_BAD_KEYWORDS ==
    << <<"i","n","t","e","r","n">>,
       <<"c","o","-","o","p">>,
       <<"c","o","o","p">>,
       <<"s","t","u","d","e","n","t">>,
       <<"s","u","m","m","e","r">>,
       <<"p","l","a","c","e","m","e","n","t">>,
       <<"m","a","n","a","g","e","r">>,
       <<"d","i","r","e","c","t","o","r">>,
       <<"h","e","a","d"," ","o","f">>,
       <<"v","p">>,
       <<"p","r","e","s","i","d","e","n","t">>,
       <<"c","h","i","e","f">>,
       <<"p","r","i","n","c","i","p","a","l">>,
       <<"l","e","a","d">>,
       <<"s","a","l","e","s">>,
       <<"c","u","s","t","o","m","e","r"," ","s","e","r","v","i","c","e">>,
       <<"t","e","c","h","n","i","c","i","a","n">>,
       <<"s","u","p","p","o","r","t">>,
       <<"c","l","e","r","k">>,
       <<"a","d","m","i","n">>,
       <<"e","n","g","i","n","e","e","r">>,
       <<"m","a","r","k","e","t","i","n","g">>,
       <<"a","c","c","o","u","n","t"," ","e","x","e","c","u","t","i","v","e">>,
       <<"d","r","i","v","e","r">>,
       <<"w","a","r","e","h","o","u","s","e">>,
       <<"n","u","r","s","e">>,
       <<"b","i","l","i","n","g","u","a","l">>,
       <<"b","u","s","i","n","e","s","s"," ","a","n","a","l","y","s","t">>,
       <<"b","u","s","i","n","e","s","s"," ","s","y","s","t","e","m","s"," ","a","n","a","l","y","s","t">>,
       <<"b","u","s","i","n","e","s","s"," ","s","y","s","t","e","m"," ","a","n","a","l","y","s","t">> >>

SCAN_STRONG_KEYWORDS ==
    << <<"d","a","t","a"," ","s","c","i","e","n","t","i","s","t">>,
       <<"d","a","t","a"," ","e","n","g","i","n","e","e","r">>,
       <<"m","a","c","h","i","n","e"," ","l","e","a","r","n","i","n","g">>,
       <<"a","i"," ","e","n","g","i","n","e","e","r">>,
       <<"c","o","m","p","u","t","e","r"," ","v","i","s","i","o","n">>,
       <<"n","l","p">>,
       <<"b","u","s","i","n","e","s","s"," ","i","n","t","e","l","l","i","g","e","n","c","e">>,
       <<"d","e","e","p"," ","l","e","a","r","n","i","n","g">>,
       <<"d","a","t","a"," ","a","n","a","l","y","s","t">>,
       <<"q","u","a","n","t","i","t","a","t","i","v","e"," ","r","e","s","e","a","r","c","h","e","r">> >>

SCAN_TECH_KEYWORDS ==
    << <<"s","q","l">>,
       <<"p","y","t","h","o","n">>,
       <<" ","r"," ">>,
       <<"r","-","p","r","o","g","r","a","m","m","i","n","g">>,
       <<"t","a","b","l","e","a","u">>,
       <<"p","o","w","e","r"," ","b","i">>,
       <<"p","o","w","e","r","b","i">>,
       <<"a","w","s">>,
       <<"a","z","u","r","e">>,
       <<"g","c","p">>,
       <<"s","n","o","w","f","l","a","k","e">>,
       <<"e","t","l">>,
       <<"p","i","p","e","l","i","n","e">>,
       <<"m","o","d","e","l","i","n","g">>,
       <<"m","a","c","h","i","n","e"," ","l","e","a","r","n","i","n","g">>,
       <<"s","t","a","t","i","s","t","i","c","a","l">>,
       <<"l","o","o","k","e","r">>,
       <<"b","i","g","q","u","e","r","y">>,
       <<"s","p","a","r","k">>,
       <<"h","a","d","o","o","p">> >>

-----------------------------------------------------------------------------
(* Field helpers of the final variant *)

\* norm(s): str(s or "").strip()
norm(s) == Strip(s)

MissingWords == { <<"n","/","a">>, <<"n","a">>, <<"n","o","n","e">>, <<"n","u","l","l">> }

\* a missing-value test that knows the empty text only
is_missing_only_empty(s) == norm(s) = <<>>

\* is_missing(s)
is_missing(s) == norm(s) = <<>> \/ Lower(norm(s)) \in MissingWords

\* a fix_doubled_title that knows the word-based repetition only
fix_doubled_words_only(text) ==
    IF text = <<>> THEN <<>>
    ELSE LET parts == Split(text)
             half  == Len(parts) \div 2
         IN  IF Len(parts) >= 2 /\ Len(parts) % 2 = 0
                /\ SubSeq(parts, 1, half) = SubSeq(parts, half + 1, Len(parts))
             THEN Join(<<" ">>, SubSeq(parts, 1, half))
             ELSE Join(<<" ">>, parts)

\* fix_doubled_title(text)
fix_doubled_title(text) ==
    IF text = <<>> THEN <<>>
    ELSE LET parts == Split(text)
             t     == Join(<<" ">>, parts)
             half  == Len(parts) \div 2
             mid   == Len(t) \div 2
         IN  IF Len(parts) >= 2 /\ Len(parts) % 2 = 0
                /\ SubSeq(parts, 1, half) = SubSeq(parts, half + 1, Len(parts))
             THEN Join(<<" ">>, SubSeq(parts, 1, half))
             ELSE IF Len(t) > 4 /\ Len(t) % 2 = 0
                     /\ SubSeq(t, 1, mid) = SubSeq(t, mid + 1, Len(t))
                  THEN SubSeq(t, 1, mid)
                  ELSE t

-----------------------------------------------------------------------------
(* Relevance classifier *)

\* a title filter in which a strong term outweighs an exclusion term
has_bad_keyword_unless_strong(title_lower) ==
    HasAny(title_lower, BAD_KEYWORDS) /\ ~HasAny(title_lower, STRONG_KEYWORDS)

\* run_scraper / scrape_linkedin_authenticated: any(bad in title_lower for bad in BAD_KEYWORDS)
has_bad_keyword(title_lower) == HasAny(title_lower, BAD_KEYWORDS)

\* a classifier that tests the ambiguous list before the strong list
relevance_type_ambiguous_first(title_lower) ==
    IF HasAny(title_lower, AMBIGUOUS_KEYWORDS) THEN "CHECK_DESCRIPTION"
    ELSE IF HasAny(title_lower, STRONG_KEYWORDS) THEN "KEEP_IMMEDIATE"
    ELSE "SKIP"

\* a classifier that sends every title without a strong term to the description check
relevance_type_check_by_default(title_lower) ==
    IF HasAny(title_lower, STRONG_KEYWORDS) THEN "KEEP_IMMEDIATE" ELSE "CHECK_DESCRIPTION"

\* run_scraper / scrape_linkedin_authenticated: relevance_type
relevance_type(title_lower) ==
    IF HasAny(title_lower, STRONG_KEYWORDS) THEN "KEEP_IMMEDIATE"
    ELSE IF HasAny(title_lower, AMBIGUOUS_KEYWORDS) THEN "CHECK_DESCRIPTION"
    ELSE "SKIP"

\* the verdict of steps 1-4 of the title filter: the bad-keyword skip, then relevance_type
classify_title(title) ==
    IF has_bad_keyword(Lower(title)) THEN "SKIP" ELSE relevance_type(Lower(title))

\* run_scraper / scrape_linkedin_authenticated: any(t in desc_lower for t in TECH_KEYWORDS)
has_tech_keyword(description) == HasAny(Lower(description), TECH_KEYWORDS)

\* a save decision that accepts any description that was read for a CHECK title
should_save_any_description(relevance, description) ==
    relevance \in {"KEEP_IMMEDIATE", "CHECK_DESCRIPTION"} /\ description # NA

\* should_save of the final variant
should_save(relevance, description) ==
    IF relevance = "KEEP_IMMEDIATE" THEN TRUE
    ELSE IF relevance = "CHECK_DESCRIPTION"
         THEN description # NA /\ has_tech_keyword(description)
         ELSE FALSE

\* job_scan.py run: any(bad in title_text for bad in BAD_KEYWORDS)
scan_has_bad_keyword(title_text) == HasAny(title_text, SCAN_BAD_KEYWORDS)

\* job_scan.py run: relevance
scan_relevance(title_text) ==
    IF HasAny(title_text, SCAN_STRONG_KEYWORDS) THEN "KEEP"
    ELSE IF HasAny(title_text, AMBIGUOUS_KEYWORDS) THEN "CHECK"
    ELSE "SKIP"

scan_classify_title(title) ==
    IF scan_has_bad_keyword(Lower(title)) THEN "SKIP" ELSE scan_relevance(Lower(title))

\* job_scan.py run: any(t in job_data['description'].lower() for t in TECH_KEYWORDS)
scan_has_tech_keyword(description) == HasAny(Lower(description), SCAN_TECH_KEYWORDS)

-----------------------------------------------------------------------------
(* Bounds and program constants *)

MAX_JOBS_TO_SCRAPE == 2      \* the record cap (60 in the final variant, 500 in job_scan.py)
MAX_PAGES_PER_KEYWORD == 2   \* the page cap (3 in the final variant, 15 in job_scan.py)
KEYWORDS_LEN == 1            \* len(KEYWORDS) of the final variant
SCAN_KEYWORDS_LEN == 2       \* len(KEYWORDS) of job_scan.py
MaxCards == 2                \* most cards a results page lists
StaleFor == 2                \* reads for which the pane still shows its old content
POLL_TICKS == 15             \* for _ in range(15)
DESC_POLLS == 12             \* reads of the description within 6.0 s, one per 0.5 s
SCAN_POLLS == 14             \* polls of WebDriverWait(driver, 7), one per 0.5 s
SCAN_SETTLE == 8             \* time.sleep(4), in poll intervals
\* a number of reads beyond every budget: a pane that does not change in time
Never == POLL_TICKS + DESC_POLLS + SCAN_POLLS + SCAN_SETTLE + 1

-----------------------------------------------------------------------------
(* The site: what the pages show *)

Absent == <<"<absent>">>     \* an element find_element does not find
NoDesc == <<"<unread>">>     \* ev.desc when the description region was not read
NaN    == <<"<NaN>">>        \* pandas' missing value

Base == <<"h","t","t","p","s",":","/","/","w","w","w",".","s","i","m","p","l","y","h","i","r","e","d",".","c","a">>

T_DataAnalyst == <<"D","a","t","a"," ","A","n","a","l","y","s","t">>
T_Analyst2    == <<"A","n","a","l","y","s","t"," ","A","n","a","l","y","s","t">>
T_Analyst     == <<"A","n","a","l","y","s","t">>
T_Intern      == <<"S","e","n","i","o","r"," ","D","a","t","a"," ","S","c","i","e","n","t","i","s","t"," ","I","n","t","e","r","n">>
T_Chef        == <<"C","h","e","f">>
C_Acme        == <<"A","c","m","e">>
C_Beta        == <<"B","e","t","a">>
D_Sql         == <<"W","e"," ","u","s","e"," ","S","Q","L">>
D_Cook        == <<"C","o","o","k"," ","f","o","o","d">>
H_A           == <<"/","a">>
H_B           == <<"/","b","?","x">>
H_Li          == <<"h","t","t","p","s",":","/","/","l","i","/","c","?","t">>

\* text of a card's title link
CardTitles == { T_DataAnalyst, T_Analyst2, T_Intern, T_Chef, <<>> }
\* text of the company element ("" when there is none)
Companies == { C_Acme, C_Beta, <<>>, NA }
\* href of a SimplyHired card's title link / of a LinkedIn card's link
SH_Hrefs == { <<>>, H_A, H_B }
LI_Hrefs == { <<>>, H_Li }
\* text of the description region
PaneDescs == { <<>>, D_Sql, D_Cook }

\* what the detail pane shows: the texts of its company, title and description elements
BlankPane == [company |-> Absent, title |-> Absent, desc |-> Absent]
OldPane   == [company |-> C_Acme, title |-> T_DataAnalyst, desc |-> D_Sql]
StalePanes == { BlankPane, OldPane }

\* After a click the pane shows `stale` for n reads and then the clicked job with
\* company `company` and description `desc`.
PaneTraces(companies, descs) ==
    [stale : {BlankPane}, n : {0}, company : companies, desc : descs]
        \cup [stale : StalePanes, n : {StaleFor}, company : companies, desc : descs]
        \cup [stale : StalePanes, n : {Never}, company : {Absent}, desc : {Absent}]

PaneAt(tr, title, t) ==
    IF t <= tr.n THEN tr.stale
    ELSE [company |-> tr.company, title |-> title, desc |-> tr.desc]

\* el.text.strip() of an element of the pane; find_element raising leaves no text
ElemText(x) == IF x = Absent THEN <<>> ELSE Strip(x)

-----------------------------------------------------------------------------
(* parse_job_data of the final variant *)

REQUIRE_COMPANY == TRUE
REQUIRE_SALARY == FALSE

Http == <<"h","t","t","p">>

\* url of parse_job_data, check_url of run_scraper
sh_url(href) ==
    IF href # <<>> /\ ~StartsWith(href, Http) THEN Base \o BeforeQuery(href) ELSE href

\* one pass over pane_checks: the two company selectors, then the title selector
tick_matches(company, title, pane) ==
    LET c == ElemText(pane.company)
        t == ElemText(pane.title)
    IN  \/ /\ c # <<>>
           /\ \/ Contains(Lower(c), Lower(company))
              \/ Contains(Lower(company), Lower(c))
        \/ /\ t # <<>>
           /\ Contains(Lower(t), Lower(Prefix(title, 10)))

\* for _ in range(15): the tick (1..15) at which pane_matched becomes True, 0 when it never does
RECURSIVE sync_tick(_, _, _, _)
sync_tick(company, title, tr, k) ==
    IF k > POLL_TICKS THEN 0
    ELSE IF tick_matches(company, title, PaneAt(tr, title, k)) THEN k
    ELSE sync_tick(company, title, tr, k + 1)

\* the description loop with the strict prev_desc check; the p-th read happens at time t + p
RECURSIVE desc_poll(_, _, _, _, _)
desc_poll(tr, title, t, p, prev_desc) ==
    IF p >= DESC_POLLS THEN NA
    ELSE LET txt == ElemText(PaneAt(tr, title, t + p).desc)
         IN  IF txt # <<>> /\ (txt # prev_desc \/ prev_desc = <<>>) THEN txt
             ELSE desc_poll(tr, title, t, p + 1, prev_desc)

NoTrace == [stale |-> BlankPane, n |-> Never, company |-> Absent, desc |-> Absent]

\* What the title filter computes from the text of a card's title link, tabulated over
\* CardTitles:  raw_title, title_lower, has_bad_keyword, relevance_type
TitleFacts ==
    [text \in CardTitles |->
        LET raw == fix_doubled_title(Strip(text))
        IN  [raw_title |-> raw, title_lower |-> Lower(raw), missing |-> is_missing(raw),
             bad |-> has_bad_keyword(Lower(raw)), relevance |-> relevance_type(Lower(raw))]] @@ <<>>

RawTitles == { TitleFacts[text].raw_title : text \in CardTitles }

\* the synchronizer of parse_job_data, tabulated over the cards and pane traces of the site
SyncTicks ==
    [company \in Companies, title \in RawTitles,
     tr \in PaneTraces(Companies, PaneDescs) \cup {NoTrace} |-> sync_tick(company, title, tr, 1)] @@ <<>>

\* sh_url, is_missing, should_save, tabulated over the texts of the site
SHUrls == [href \in SH_Hrefs |-> sh_url(href)] @@ <<>>
Missing ==
    [s \in Companies \cup RawTitles \cup { sh_url(href) : href \in SH_Hrefs } |-> is_missing(s)]
        @@ <<>>
ShouldSave ==
    [relevance \in {"KEEP_IMMEDIATE", "CHECK_DESCRIPTION", "SKIP"}, d \in PaneDescs \cup {NA} |->
        should_save(relevance, d)] @@ <<>>

None(why, clicked, synced) ==
    [ret |-> "None", why |-> why, clicked |-> clicked, synced |-> synced, reads |-> {}]

\* a parse_job_data that goes on to extract when the synchronizer gave up
parse_job_data_unsynced(text, company, href, fault, tr, prev_desc) ==
    LET title == TitleFacts[text].raw_title
        url   == SHUrls[href]
        m     == SyncTicks[company, title, tr]
    IN  IF fault # "none" \/ Missing[title] \/ Missing[url] \/ Missing[company]
        THEN None("not processed", FALSE, "n/a")
        ELSE [ret |-> "data", title |-> title, company |-> company, url |-> url,
              description |-> desc_poll(tr, title, IF m = 0 THEN POLL_TICKS ELSE m, 0,
                                        prev_desc),
              clicked |-> TRUE, synced |-> IF m = 0 THEN "no" ELSE "yes",
              reads |-> {"description", "salary", "qualifications"}]

\* parse_job_data(driver, card, prev_desc); fault names the step that raises, if any
parse_job_data(text, company, href, fault, tr, prev_desc) ==
    LET title == TitleFacts[text].raw_title
        url   == SHUrls[href]
    IN  IF fault = "card_parse" THEN None("card parse failed", FALSE, "n/a")
        ELSE IF Missing[title] \/ Missing[url]
             THEN None("missing title or url on card", FALSE, "n/a")
        ELSE IF REQUIRE_COMPANY /\ Missing[company]
             THEN None("missing company on card", FALSE, "n/a")
        ELSE IF fault = "click" THEN None("click failed", FALSE, "n/a")
        ELSE LET m == SyncTicks[company, title, tr]
             IN  IF m = 0 THEN None("sync failed", TRUE, "no")
                 ELSE [ret |-> "data", title |-> title, company |-> company, url |-> url,
                       description |-> desc_poll(tr, title, m, 0, prev_desc),
                       clicked |-> TRUE, synced |-> "yes",
                       reads |-> {"description", "salary", "qualifications"}]

\* the inputs under which parse_job_data gets as far as reading the pane
reaches_pane(text, company, href, fault) ==
    /\ fault = "none"
    /\ ~TitleFacts[text].missing
    /\ ~Missing[SHUrls[href]]
    /\ ~Missing[company]

-----------------------------------------------------------------------------
(* run_scraper: loading the SeenSet *)

PandasNA == { <<>>, NA, <<"N","A">>, <<"n","/","a">>, <<"N","U","L","L">>, <<"n","u","l","l">>,
              <<"N","a","N">>, <<"n","a","n">>, <<"N","o","n","e">> }

\* pd.read_csv on one cell
read_csv_cell(s) == IF s \in PandasNA THEN NaN ELSE s

\* str(row.get(col, ''))
py_str(v) == IF v = NaN THEN <<"n","a","n">> ELSE v

\* a signature that keeps the case of title and company
signature_case_sensitive(title, company) == <<Strip(title), Strip(company)>>

\* (title.lower().strip(), company.lower().strip())
signature(title, company) == <<Strip(Lower(title)), Strip(Lower(company))>>

Signatures ==
    [title \in RawTitles, company \in Companies |-> signature(title, company)] @@ <<>>

NoFile == [exists |-> FALSE, rows |-> <<>>]

\* the rows of OUTPUT_FILE
Rows(file) == file.rows

\* seen_urls = set(old_df["url"].dropna().tolist())
load_seen_urls(file) ==
    { read_csv_cell(Rows(file)[k].url) : k \in 1..Len(Rows(file)) } \ {NaN}

\* the loop over old_df.iterrows()
load_seen_signatures(file) ==
    { s \in { signature(py_str(read_csv_cell(Rows(file)[k].title)),
                        py_str(read_csv_cell(Rows(file)[k].company))) :
              k \in 1..Len(Rows(file)) } : s[1] # <<>> /\ s[2] # <<>> }

R_Old1 == [title |-> <<"D","A","T","A"," ","A","N","A","L","Y","S","T">>, url |-> Base \o H_A, company |-> <<"A","C","M","E"," ">>]
R_Old2 == [title |-> T_Analyst, url |-> NA, company |-> NA]

\* OUTPUT_FILE as a previous run left it
OldFiles == { NoFile, [exists |-> TRUE, rows |-> <<R_Old1, R_Old2>>] }

-----------------------------------------------------------------------------
(* run_scraper: the SimplyHired loop *)

Idle == [op |-> "none"]

\* no frame has been read
NoFrame == [columns |-> <<>>, rows |-> <<>>]

\* verify_and_clean_data is not the entry point that runs
NotVerifying == df = NoFrame /\ futures = <<>> /\ backup_file = NoFile

CardEv(site, title, relevance, clicked, synced, reads, desc, out) ==
    [op |-> "card", site |-> site, title |-> title, relevance |-> relevance,
     clicked |-> clicked, synced |-> synced, reads |-> reads, desc |-> desc, out |-> out]

InitScraper ==
    /\ prog = "run_scraper" /\ pc = "sh_kw" /\ kw = 1
    /\ page_num = 0 /\ i = 0 /\ ncards = 0
    /\ out_file \in OldFiles
    /\ seen_urls = load_seen_urls(out_file)
    /\ seen_signatures = load_seen_signatures(out_file)
    /\ new_jobs_buffer = <<>> /\ total_saved_this_run = 0
    /\ prev_description = <<>> /\ total_saved = 0
    /\ quits = 0 /\ exc = FALSE /\ ev = Idle /\ sy = Idle /\ fn = Idle /\ NotVerifying

\* an exception that skips the finally block
Raise_past_finally ==
    /\ pc' = "done" /\ exc' = TRUE /\ ev' = Idle
    /\ UNCHANGED <<prog, kw, page_num, i, ncards, seen_urls, seen_signatures, new_jobs_buffer,
                   total_saved_this_run, prev_description, total_saved, out_file, quits, sy, fn,
                   verifyVars>>

\* an exception leaves the try block of run_scraper
Raise ==
    /\ pc' = "finally" /\ exc' = TRUE /\ ev' = Idle
    /\ UNCHANGED <<prog, kw, page_num, i, ncards, seen_urls, seen_signatures, new_jobs_buffer,
                   total_saved_this_run, prev_description, total_saved, out_file, quits, sy, fn, verifyVars>>

\* for kw in KEYWORDS: driver.get(search url); page_num = 1
SHKeyword ==
    /\ prog = "run_scraper" /\ pc = "sh_kw" /\ kw <= KEYWORDS_LEN
    /\ pc' = "sh_while" /\ page_num' = 1 /\ ev' = Idle
    /\ UNCHANGED <<prog, kw, i, ncards, seen_urls, seen_signatures, new_jobs_buffer,
                   total_saved_this_run, prev_description, total_saved, out_file, quits, exc,
                   sy, fn, verifyVars>>

\* driver.get raises (page-load timeout)
SHGetFails == prog = "run_scraper" /\ pc = "sh_kw" /\ kw <= KEYWORDS_LEN /\ Raise

\* the for-kw loop ends and scrape_linkedin_authenticated starts without the prompt
SHKeywordsDone_skips_gate ==
    /\ prog = "run_scraper" /\ pc = "sh_kw" /\ kw > KEYWORDS_LEN
    /\ pc' = "li_kw" /\ kw' = 1 /\ prev_description' = <<>> /\ ev' = Idle
    /\ UNCHANGED <<prog, page_num, i, ncards, seen_urls, seen_signatures, new_jobs_buffer,
                   total_saved_this_run, total_saved, out_file, quits, exc, sy, fn, verifyVars>>

\* the for-kw loop is exhausted
SHKeywordsDone ==
    /\ prog = "run_scraper" /\ pc = "sh_kw" /\ kw > KEYWORDS_LEN
    /\ pc' = "gate" /\ ev' = Idle
    /\ UNCHANGED <<prog, kw, page_num, i, ncards, seen_urls, seen_signatures, new_jobs_buffer,
                   total_saved_this_run, prev_description, total_saved, out_file, quits, exc,
                   sy, fn, verifyVars>>

\* leaving the while loop of one keyword
SHNextKeyword ==
    /\ pc' = "sh_kw" /\ kw' = kw + 1 /\ ev' = Idle
    /\ UNCHANGED <<prog, page_num, i, ncards, seen_urls, seen_signatures, new_jobs_buffer,
                   total_saved_this_run, prev_description, total_saved, out_file, quits, exc,
                   sy, fn, verifyVars>>

\* while page_num <= MAX_PAGES_PER_KEYWORD: wait for job-list, read the cards
SHPage ==
    /\ prog = "run_scraper" /\ pc = "sh_while" /\ page_num <= MAX_PAGES_PER_KEYWORD
    /\ \E n \in 0..MaxCards : ncards' = n
    /\ i' = 0 /\ prev_description' = <<>> /\ pc' = "sh_for" /\ ev' = Idle
    /\ UNCHANGED <<prog, kw, page_num, seen_urls, seen_signatures, new_jobs_buffer,
                   total_saved_this_run, total_saved, out_file, quits, exc, sy, fn, verifyVars>>

\* WebDriverWait(driver, 10).until(job-list present) times out: nothing catches it
SHPageTimeout ==
    prog = "run_scraper" /\ pc = "sh_while" /\ page_num <= MAX_PAGES_PER_KEYWORD /\ Raise

\* the while condition fails
SHPagesDone ==
    prog = "run_scraper" /\ pc = "sh_while" /\ page_num > MAX_PAGES_PER_KEYWORD /\ SHNextKeyword

\* a card iteration that buffers nothing and still counts the card
SHSkip_counted(e, prev) ==
    /\ ev' = e /\ i' = i + 1 /\ prev_description' = prev
    /\ total_saved_this_run' = total_saved_this_run + 1
    /\ UNCHANGED <<prog, pc, kw, page_num, ncards, seen_urls, seen_signatures, new_jobs_buffer,
                   total_saved, out_file, quits, exc, sy, fn, verifyVars>>

\* a card iteration that buffers nothing
SHSkip(e, prev) ==
    /\ ev' = e /\ i' = i + 1 /\ prev_description' = prev
    /\ UNCHANGED <<prog, pc, kw, page_num, ncards, seen_urls, seen_signatures, new_jobs_buffer,
                   total_saved_this_run, total_saved, out_file, quits, exc, sy, fn, verifyVars>>

\* a buffering step that does not count the record
SHBuffer_uncounted(e, job_data, sig) ==
    /\ ev' = e /\ i' = i + 1 /\ prev_description' = job_data.description
    /\ new_jobs_buffer' = Append(new_jobs_buffer,
           [title |-> job_data.title, url |-> job_data.url, company |-> job_data.company])
    /\ seen_urls' = seen_urls \cup {job_data.url}
    /\ seen_signatures' = seen_signatures \cup {sig}
    /\ UNCHANGED <<prog, pc, kw, page_num, ncards, total_saved_this_run, total_saved, out_file,
                   quits, exc, sy, fn, verifyVars>>

\* a card iteration that appends job_data to new_jobs_buffer
SHBuffer(e, job_data, sig) ==
    /\ ev' = e /\ i' = i + 1 /\ prev_description' = job_data.description
    /\ new_jobs_buffer' = Append(new_jobs_buffer,
           [title |-> job_data.title, url |-> job_data.url, company |-> job_data.company])
    /\ seen_urls' = seen_urls \cup {job_data.url}
    /\ seen_signatures' = seen_signatures \cup {sig}
    /\ total_saved_this_run' = total_saved_this_run + 1
    /\ UNCHANGED <<prog, pc, kw, page_num, ncards, total_saved, out_file, quits, exc, sy, fn, verifyVars>>

\* a card iteration without the URL check that follows parse_job_data
SHExtract_no_url_check(raw_title, relevance, job_data) ==
    LET sig == Signatures[job_data.title, job_data.company]
        e(desc, out) == CardEv("sh", raw_title, relevance, job_data.clicked, job_data.synced,
                               job_data.reads, desc, out)
    IN  IF job_data.ret = "None" THEN SHSkip(e(NoDesc, "parse_none"), prev_description)
        ELSE IF sig \in seen_signatures
             THEN SHSkip(e(job_data.description, "dup_sig"), prev_description)
        ELSE IF ShouldSave[relevance, job_data.description]
             THEN SHBuffer(e(job_data.description, "buffered"), job_data, sig)
             ELSE SHSkip(e(job_data.description, "no_save"), job_data.description)

\* the part of a card iteration after the title filter: parse_job_data, the two
\* duplicate checks, the save decision
SHExtract(raw_title, relevance, job_data) ==
    LET sig == Signatures[job_data.title, job_data.company]
        e(desc, out) == CardEv("sh", raw_title, relevance, job_data.clicked, job_data.synced,
                               job_data.reads, desc, out)
    IN  IF job_data.ret = "None" THEN SHSkip(e(NoDesc, "parse_none"), prev_description)
        ELSE IF job_data.url \in seen_urls
             THEN SHSkip(e(job_data.description, "dup_url"), prev_description)
        ELSE IF sig \in seen_signatures
             THEN SHSkip(e(job_data.description, "dup_sig"), prev_description)
        ELSE IF ShouldSave[relevance, job_data.description]
             THEN SHBuffer(e(job_data.description, "buffered"), job_data, sig)
             ELSE SHSkip(e(job_data.description,
                           IF job_data.description = NA THEN "no_desc" ELSE "no_tech"),
                         job_data.description)

\* one iteration of  for i in range(len(cards))  that reads a card
SHCard ==
    /\ prog = "run_scraper" /\ pc = "sh_for" /\ i < ncards
    /\ total_saved_this_run < MAX_JOBS_TO_SCRAPE
    /\ \E text \in CardTitles, href \in SH_Hrefs :
       \E tmp_fails \in (IF SHUrls[href] \in seen_urls THEN BOOLEAN ELSE {FALSE}) :
         LET check_url   == SHUrls[href]
             raw_title   == TitleFacts[text].raw_title
             relevance   == TitleFacts[text].relevance
             e(rel, out) == CardEv("sh", raw_title, rel, FALSE, "n/a", {}, NoDesc, out)
         IN  IF ~tmp_fails /\ check_url # <<>> /\ check_url \in seen_urls
             THEN SHSkip(e("none", "dup_url_card"), prev_description)
             ELSE IF TitleFacts[text].missing
                  THEN SHSkip(e("none", "empty_title"), prev_description)
             ELSE IF TitleFacts[text].bad
                  THEN SHSkip(e("none", "bad_kw"), prev_description)
             ELSE IF relevance = "SKIP"
                  THEN SHSkip(e(relevance, "irrelevant"), prev_description)
             ELSE \E company \in Companies, fault \in {"none", "card_parse", "click"} :
                  \E tr \in (IF reaches_pane(text, company, href, fault)
                             THEN PaneTraces({company}, PaneDescs) ELSE {NoTrace}) :
                    SHExtract(raw_title, relevance,
                              parse_job_data(text, company, href, fault, tr, prev_description))

\* an exception of the card iteration that no except clause of the loop catches
SHCardError_uncaught ==
    /\ prog = "run_scraper" /\ pc = "sh_for" /\ i < ncards
    /\ total_saved_this_run < MAX_JOBS_TO_SCRAPE
    /\ Raise

\* an exception inside the card iteration (cards[i] out of range after the re-read,
\* a stale element): except Exception: continue
SHCardError ==
    /\ prog = "run_scraper" /\ pc = "sh_for" /\ i < ncards
    /\ total_saved_this_run < MAX_JOBS_TO_SCRAPE
    /\ \E cause \in {"IndexError", "StaleElementReferenceException"} :
         /\ cause = "IndexError" => \E n \in 0..MaxCards : n <= i
         /\ SHSkip([op |-> "card", site |-> "sh", title |-> <<>>, relevance |-> "none",
                    clicked |-> FALSE, synced |-> "n/a", reads |-> {}, desc |-> NoDesc,
                    out |-> "error", cause |-> cause], prev_description)

\* the for loop ends: range exhausted, or the cap test breaks
SHForEnd ==
    /\ prog = "run_scraper" /\ pc = "sh_for"
    /\ i >= ncards \/ total_saved_this_run >= MAX_JOBS_TO_SCRAPE
    /\ pc' = "sh_after" /\ ev' = Idle
    /\ UNCHANGED <<prog, kw, page_num, i, ncards, seen_urls, seen_signatures, new_jobs_buffer,
                   total_saved_this_run, prev_description, total_saved, out_file, quits, exc,
                   sy, fn, verifyVars>>

\* if total_saved_this_run >= MAX_JOBS_TO_SCRAPE: break
SHCapBreak ==
    /\ prog = "run_scraper" /\ pc = "sh_after"
    /\ total_saved_this_run >= MAX_JOBS_TO_SCRAPE
    /\ SHNextKeyword

\* the next-page control is found and clicked
SHNextPage ==
    /\ prog = "run_scraper" /\ pc = "sh_after"
    /\ total_saved_this_run < MAX_JOBS_TO_SCRAPE
    /\ pc' = "sh_while" /\ page_num' = page_num + 1 /\ ev' = Idle
    /\ UNCHANGED <<prog, kw, i, ncards, seen_urls, seen_signatures, new_jobs_buffer,
                   total_saved_this_run, prev_description, total_saved, out_file, quits, exc,
                   sy, fn, verifyVars>>

\* no next-page control (or the click raises): break
SHNoNextPage ==
    /\ prog = "run_scraper" /\ pc = "sh_after"
    /\ total_saved_this_run < MAX_JOBS_TO_SCRAPE
    /\ SHNextKeyword

-----------------------------------------------------------------------------
(* run_scraper: the manual gate and scrape_linkedin_authenticated *)

\* driver.get(login page); input(...) returns; scrape_linkedin_authenticated starts
Gate ==
    /\ prog = "run_scraper" /\ pc = "gate"
    /\ pc' = "li_kw" /\ kw' = 1 /\ prev_description' = <<>> /\ ev' = Idle
    /\ UNCHANGED <<prog, page_num, i, ncards, seen_urls, seen_signatures, new_jobs_buffer,
                   total_saved_this_run, total_saved, out_file, quits, exc, sy, fn, verifyVars>>

\* driver.get or input() raises
GateFails == prog = "run_scraper" /\ pc = "gate" /\ Raise

\* linkedin_url_from_card(card)
linkedin_url_from_card(href) == IF href # <<>> THEN BeforeQuery(href) ELSE <<>>

\* linkedin_company_from_pane(driver)
linkedin_company_from_pane(pane) == ElemText(pane.company)

\* one pass over pane_title_selectors
li_tick_matches(raw_title, pane) ==
    LET txt == fix_doubled_title(ElemText(pane.title))
    IN  /\ txt # <<>>
        /\ \/ Contains(Lower(txt), Lower(raw_title))
           \/ Contains(Lower(raw_title), Lower(txt))

\* for _ in range(15) of scrape_linkedin_authenticated
RECURSIVE li_sync_tick(_, _, _)
li_sync_tick(raw_title, tr, k) ==
    IF k > POLL_TICKS THEN 0
    ELSE IF li_tick_matches(raw_title, PaneAt(tr, raw_title, k)) THEN k
    ELSE li_sync_tick(raw_title, tr, k + 1)

\* the synchronizer of scrape_linkedin_authenticated, tabulated over the site
LISyncTicks ==
    [title \in RawTitles, tr \in PaneTraces(Companies, PaneDescs) \cup {NoTrace} |->
        li_sync_tick(title, tr, 1)] @@ <<>>

\* for kw in KEYWORDS: driver.get(search_url); current_page_num = 1
LIKeyword ==
    /\ prog = "run_scraper" /\ pc = "li_kw" /\ kw <= KEYWORDS_LEN
    /\ pc' = "li_while" /\ page_num' = 1 /\ ev' = Idle
    /\ UNCHANGED <<prog, kw, i, ncards, seen_urls, seen_signatures, new_jobs_buffer,
                   total_saved_this_run, prev_description, total_saved, out_file, quits, exc,
                   sy, fn, verifyVars>>

\* driver.get raises inside scrape_linkedin_authenticated, which catches nothing there
LIGetFails == prog = "run_scraper" /\ pc = "li_kw" /\ kw <= KEYWORDS_LEN /\ Raise

\* scrape_linkedin_authenticated returns: to the finally block of run_scraper
LIReturn ==
    /\ pc' = "finally" /\ ev' = Idle
    /\ UNCHANGED <<prog, kw, page_num, i, ncards, seen_urls, seen_signatures, new_jobs_buffer,
                   total_saved_this_run, prev_description, total_saved, out_file, quits, exc,
                   sy, fn, verifyVars>>

LIKeywordsDone == prog = "run_scraper" /\ pc = "li_kw" /\ kw > KEYWORDS_LEN /\ LIReturn

\* if len(new_jobs_buffer) >= MAX_JOBS_TO_SCRAPE: return  (top of the while and of the for loop)
LICapReturn ==
    /\ prog = "run_scraper"
    /\ pc = "li_while" \/ (pc = "li_for" /\ i < ncards)
    /\ Len(new_jobs_buffer) >= MAX_JOBS_TO_SCRAPE
    /\ LIReturn

LINextKeyword ==
    /\ pc' = "li_kw" /\ kw' = kw + 1 /\ ev' = Idle
    /\ UNCHANGED <<prog, page_num, i, ncards, seen_urls, seen_signatures, new_jobs_buffer,
                   total_saved_this_run, prev_description, total_saved, out_file, quits, exc,
                   sy, fn, verifyVars>>

\* if current_page_num > MAX_PAGES_PER_KEYWORD: break
LIPagesDone ==
    /\ prog = "run_scraper" /\ pc = "li_while"
    /\ Len(new_jobs_buffer) < MAX_JOBS_TO_SCRAPE
    /\ page_num > MAX_PAGES_PER_KEYWORD
    /\ LINextKeyword

\* no .job-card-container appears within the wait: break
LINoCards ==
    /\ prog = "run_scraper" /\ pc = "li_while"
    /\ Len(new_jobs_buffer) < MAX_JOBS_TO_SCRAPE
    /\ page_num <= MAX_PAGES_PER_KEYWORD
    /\ LINextKeyword

\* the cards of the page are read
LIPage ==
    /\ prog = "run_scraper" /\ pc = "li_while"
    /\ Len(new_jobs_buffer) < MAX_JOBS_TO_SCRAPE
    /\ page_num <= MAX_PAGES_PER_KEYWORD
    /\ \E n \in 0..MaxCards : ncards' = n
    /\ i' = 0 /\ pc' = "li_for" /\ ev' = Idle
    /\ UNCHANGED <<prog, kw, page_num, seen_urls, seen_signatures, new_jobs_buffer,
                   total_saved_this_run, prev_description, total_saved, out_file, quits, exc,
                   sy, fn, verifyVars>>

\* a LinkedIn card iteration that buffers nothing
LISkip(e, prev) ==
    /\ ev' = e /\ i' = i + 1 /\ prev_description' = prev
    /\ UNCHANGED <<prog, pc, kw, page_num, ncards, seen_urls, seen_signatures, new_jobs_buffer,
                   total_saved_this_run, total_saved, out_file, quits, exc, sy, fn, verifyVars>>

\* if should_save: new_jobs_buffer.append(data); seen_urls.add(job_url); seen_signatures.add(sig)
LIBuffer(e, raw_title, job_url, raw_company, sig, prev) ==
    /\ ev' = e /\ i' = i + 1 /\ prev_description' = prev
    /\ new_jobs_buffer' = Append(new_jobs_buffer,
           [title |-> raw_title, url |-> IF job_url # <<>> THEN job_url ELSE NA,
            company |-> raw_company])
    /\ seen_urls' = IF job_url # <<>> THEN seen_urls \cup {job_url} ELSE seen_urls
    /\ seen_signatures' = seen_signatures \cup {sig}
    /\ UNCHANGED <<prog, pc, kw, page_num, ncards, total_saved_this_run, total_saved,
                   out_file, quits, exc, sy, fn, verifyVars>>

\* the card iteration from the click on
LIExtract(text, job_url, fault, tr) ==
    LET raw_title   == TitleFacts[text].raw_title
        m           == LISyncTicks[raw_title, tr]
        raw_company == linkedin_company_from_pane(PaneAt(tr, raw_title, m))
        sig         == Signatures[raw_title, raw_company]
        relevance   == TitleFacts[text].relevance
        description == desc_poll(tr, raw_title, m, 0, prev_description)
        prev        == IF description # NA THEN description ELSE prev_description
        e(rel, clicked, synced, reads, desc, out) ==
            CardEv("li", raw_title, rel, clicked, synced, reads, desc, out)
    IN  IF fault = "click"
        THEN LISkip(e("none", FALSE, "n/a", {}, NoDesc, "click_failed"), prev_description)
        ELSE IF m = 0
             THEN LISkip(e("none", TRUE, "no", {}, NoDesc, "sync_failed"), prev_description)
        ELSE IF REQUIRE_COMPANY /\ Missing[raw_company]
             THEN LISkip(e("none", TRUE, "yes", {"company"}, NoDesc, "no_company"),
                         prev_description)
        ELSE IF sig \in seen_signatures
             THEN LISkip(e("none", TRUE, "yes", {"company"}, NoDesc, "dup_sig"),
                         prev_description)
        ELSE IF TitleFacts[text].bad
             THEN LISkip(e("none", TRUE, "yes", {"company"}, NoDesc, "bad_kw"),
                         prev_description)
        ELSE IF relevance = "SKIP"
             THEN LISkip(e(relevance, TRUE, "yes", {"company"}, NoDesc, "irrelevant"),
                         prev_description)
        ELSE IF ShouldSave[relevance, description]
             THEN LIBuffer(e(relevance, TRUE, "yes", {"company", "description"}, description,
                             "buffered"),
                           raw_title, job_url, raw_company, sig, prev)
             ELSE LISkip(e(relevance, TRUE, "yes", {"company", "description"}, description,
                           IF description = NA THEN "no_desc" ELSE "no_tech"), prev)

\* one iteration of  for card in cards
LICard ==
    /\ prog = "run_scraper" /\ pc = "li_for" /\ i < ncards
    /\ Len(new_jobs_buffer) < MAX_JOBS_TO_SCRAPE
    /\ \E text \in CardTitles, href \in LI_Hrefs :
         LET raw_title == TitleFacts[text].raw_title
             job_url   == linkedin_url_from_card(href)
             e(out)    == CardEv("li", raw_title, "none", FALSE, "n/a", {}, NoDesc, out)
         IN  IF TitleFacts[text].missing THEN LISkip(e("empty_title"), prev_description)
             ELSE IF job_url # <<>> /\ job_url \in seen_urls
                  THEN LISkip(e("dup_url_card"), prev_description)
             ELSE \E fault \in {"none", "click"} :
                  \E tr \in (IF fault = "none" THEN PaneTraces(Companies, PaneDescs)
                             ELSE {NoTrace}) :
                    LIExtract(text, job_url, fault, tr)

\* an exception inside the card iteration: except Exception: continue
LICardError ==
    /\ prog = "run_scraper" /\ pc = "li_for" /\ i < ncards
    /\ Len(new_jobs_buffer) < MAX_JOBS_TO_SCRAPE
    /\ LISkip([op |-> "card", site |-> "li", title |-> <<>>, relevance |-> "none",
               clicked |-> FALSE, synced |-> "n/a", reads |-> {}, desc |-> NoDesc,
               out |-> "error", cause |-> "StaleElementReferenceException"], prev_description)

\* the for loop over the cards is exhausted
LIForEnd ==
    /\ prog = "run_scraper" /\ pc = "li_for" /\ i >= ncards
    /\ pc' = "li_after" /\ ev' = Idle
    /\ UNCHANGED <<prog, kw, page_num, i, ncards, seen_urls, seen_signatures, new_jobs_buffer,
                   total_saved_this_run, prev_description, total_saved, out_file, quits, exc,
                   sy, fn, verifyVars>>

\* a next-page click after which current_page_num stays as it was
LINextPage_same_page ==
    /\ prog = "run_scraper" /\ pc = "li_after"
    /\ pc' = "li_while" /\ ev' = Idle
    /\ UNCHANGED <<prog, kw, page_num, i, ncards, seen_urls, seen_signatures, new_jobs_buffer,
                   total_saved_this_run, prev_description, total_saved, out_file, quits, exc,
                   sy, fn, verifyVars>>

\* the button of the next page is found and clicked
LINextPage ==
    /\ prog = "run_scraper" /\ pc = "li_after"
    /\ pc' = "li_while" /\ page_num' = page_num + 1 /\ ev' = Idle
    /\ UNCHANGED <<prog, kw, i, ncards, seen_urls, seen_signatures, new_jobs_buffer,
                   total_saved_this_run, prev_description, total_saved, out_file, quits, exc,
                   sy, fn, verifyVars>>

\* no button for the next page, or the click raises: break
LINoNextPage == prog = "run_scraper" /\ pc = "li_after" /\ LINextKeyword

-----------------------------------------------------------------------------
(* run_scraper: the finally block *)

\* driver.quit()
Finally ==
    /\ prog = "run_scraper" /\ pc = "finally"
    /\ quits' = quits + 1 /\ pc' = "flush" /\ ev' = Idle
    /\ UNCHANGED <<prog, kw, page_num, i, ncards, seen_urls, seen_signatures, new_jobs_buffer,
                   total_saved_this_run, prev_description, total_saved, out_file, exc, sy, fn, verifyVars>>

\* a flush that also empties the seen sets
Flush_forgets ==
    /\ prog = "run_scraper" /\ pc = "flush"
    /\ out_file' = [exists |-> TRUE, rows |-> Rows(out_file) \o new_jobs_buffer]
    /\ seen_urls' = {} /\ seen_signatures' = {}
    /\ pc' = "done" /\ ev' = Idle
    /\ UNCHANGED <<prog, kw, page_num, i, ncards, new_jobs_buffer, total_saved_this_run,
                   prev_description, total_saved, quits, exc, sy, fn, verifyVars>>

\* a flush that is skipped when an exception ended the scrape loops
Flush_unless_exception ==
    /\ prog = "run_scraper" /\ pc = "flush"
    /\ out_file' = IF new_jobs_buffer # <<>> /\ ~exc
                   THEN [exists |-> TRUE, rows |-> Rows(out_file) \o new_jobs_buffer]
                   ELSE out_file
    /\ pc' = "done" /\ ev' = Idle
    /\ UNCHANGED <<prog, kw, page_num, i, ncards, seen_urls, seen_signatures, new_jobs_buffer,
                   total_saved_this_run, prev_description, total_saved, quits, exc, sy, fn,
                   verifyVars>>

\* if new_jobs_buffer: summarize, reindex, append to OUTPUT_FILE
Flush ==
    /\ prog = "run_scraper" /\ pc = "flush"
    /\ out_file' = IF new_jobs_buffer # <<>>
                   THEN [exists |-> TRUE, rows |-> Rows(out_file) \o new_jobs_buffer]
                   ELSE out_file
    /\ pc' = "done" /\ ev' = Idle
    /\ UNCHANGED <<prog, kw, page_num, i, ncards, seen_urls, seen_signatures, new_jobs_buffer,
                   total_saved_this_run, prev_description, total_saved, quits, exc, sy, fn, verifyVars>>

NextScraper ==
    \/ SHKeyword \/ SHGetFails \/ SHKeywordsDone
    \/ SHPage \/ SHPageTimeout \/ SHPagesDone
    \/ SHCard \/ SHCardError \/ SHForEnd
    \/ SHCapBreak \/ SHNextPage \/ SHNoNextPage
    \/ Gate \/ GateFails
    \/ LIKeyword \/ LIGetFails \/ LIKeywordsDone \/ LICapReturn
    \/ LIPagesDone \/ LINoCards \/ LIPage
    \/ LICard \/ LICardError \/ LIForEnd \/ LINextPage \/ LINoNextPage
    \/ Finally \/ Flush

SpecScraper == InitScraper /\ [][NextScraper]_vars

-----------------------------------------------------------------------------
(* job_scan.py *)

\* data['url'] of job_scan.py's parse_job_data
scan_url(href) ==
    BeforeQuery(IF href # <<>> /\ ~StartsWith(href, Http) THEN Base \o href ELSE href)

\* .text of div[data-testid='viewJobBodyContainer']: Absent while the pane has no content
container_text(pane) ==
    IF pane.title = Absent THEN Absent
    ELSE pane.title \o <<"\n">> \o ElemText(pane.company) \o <<"\n">> \o ElemText(pane.desc)

\* the lambda of wait.until: NoSuchElementException is ignored by WebDriverWait
scan_tick_matches(raw_title, pane) ==
    /\ container_text(pane) # Absent
    /\ Contains(container_text(pane), Prefix(raw_title, 10))

\* WebDriverWait(driver, 7).until(...): the poll (1..SCAN_POLLS) that succeeds, 0 on timeout
RECURSIVE scan_wait(_, _, _)
scan_wait(raw_title, tr, k) ==
    IF k > SCAN_POLLS THEN 0
    ELSE IF scan_tick_matches(raw_title, PaneAt(tr, raw_title, k)) THEN k
    ELSE scan_wait(raw_title, tr, k + 1)

\* scan_wait and scan_url, tabulated over the site
ScanWaits ==
    [title \in { Strip(text) : text \in CardTitles },
     tr \in PaneTraces(Companies, PaneDescs \cup {Absent}) \cup {NoTrace} |->
        scan_wait(title, tr, 1)] @@ <<>>
ScanUrls == [href \in SH_Hrefs |-> scan_url(href)] @@ <<>>

\* parse_job_data(driver, card) of job_scan.py; keys lists the keys of the returned dict
scan_parse_job_data(text, company, href, fault, tr) ==
    LET raw_title == Strip(text)
        m         == ScanWaits[raw_title, tr]
        pane      == PaneAt(tr, raw_title, m + SCAN_SETTLE)
        card      == [title |-> raw_title, url |-> ScanUrls[href]]
    IN  IF fault = "card_parse" THEN [ret |-> "None", synced |-> "n/a", reads |-> {}]
        ELSE IF m = 0
             THEN [ret |-> "data", card |-> card, description |-> NA, synced |-> "no",
                   reads |-> {},
                   keys |-> {"description", "salary", "qualifications", "date_posted", "scraped_at"}]
        ELSE IF pane.desc = Absent
             THEN [ret |-> "data", card |-> card, description |-> NA, synced |-> "yes",
                   reads |-> {"description"}, keys |-> {"description", "scraped_at"}]
        ELSE [ret |-> "data", card |-> card, description |-> pane.desc, synced |-> "yes",
              reads |-> {"description", "salary", "qualifications", "date_posted"},
              keys |-> {"description", "salary", "qualifications", "date_posted", "scraped_at"}]

\* the title filter and the description check of run(), tabulated over the site
ScanTitleFacts ==
    [text \in CardTitles |->
        [bad |-> scan_has_bad_keyword(Lower(text)), relevance |-> scan_relevance(Lower(text))]]
        @@ <<>>
ScanTech == [d \in PaneDescs \cup {NA} |-> scan_has_tech_keyword(d)] @@ <<>>

\* run() up to the try block: OUTPUT_FILE removed, total_saved = 0
InitScan ==
    /\ prog = "run" /\ pc = "scan_kw" /\ kw = 1
    /\ page_num = 0 /\ i = 0 /\ ncards = 0
    /\ out_file = NoFile
    /\ seen_urls = {} /\ seen_signatures = {}
    /\ new_jobs_buffer = <<>> /\ total_saved_this_run = 0
    /\ prev_description = <<>> /\ total_saved = 0
    /\ quits = 0 /\ exc = FALSE /\ ev = Idle /\ sy = Idle /\ fn = Idle /\ NotVerifying

scanFrame == <<prog, seen_urls, seen_signatures, new_jobs_buffer, total_saved_this_run,
               prev_description, sy, fn, verifyVars>>

\* for kw in KEYWORDS: driver.get(url); page_num = 1
ScanKeyword ==
    /\ prog = "run" /\ pc = "scan_kw" /\ kw <= SCAN_KEYWORDS_LEN
    /\ pc' = "scan_while" /\ page_num' = 1 /\ ev' = Idle
    /\ UNCHANGED <<scanFrame, kw, i, ncards, total_saved, out_file, quits, exc>>

\* driver.get raises: nothing catches it before the finally block
ScanGetFails ==
    /\ prog = "run" /\ pc = "scan_kw" /\ kw <= SCAN_KEYWORDS_LEN
    /\ pc' = "scan_finally" /\ exc' = TRUE /\ ev' = Idle
    /\ UNCHANGED <<scanFrame, kw, page_num, i, ncards, total_saved, out_file, quits>>

\* the for-kw loop is exhausted
ScanKeywordsDone ==
    /\ prog = "run" /\ pc = "scan_kw" /\ kw > SCAN_KEYWORDS_LEN
    /\ pc' = "scan_finally" /\ ev' = Idle
    /\ UNCHANGED <<scanFrame, kw, page_num, i, ncards, total_saved, out_file, quits, exc>>

\* break out of  while True
ScanNextKeyword ==
    /\ pc' = "scan_kw" /\ kw' = kw + 1 /\ ev' = Idle
    /\ UNCHANGED <<scanFrame, page_num, i, ncards, total_saved, out_file, quits, exc>>

\* job-list is present; the cards are read
ScanPage ==
    /\ prog = "run" /\ pc = "scan_while"
    /\ \E n \in 0..MaxCards : ncards' = n
    /\ i' = 0 /\ pc' = "scan_for" /\ ev' = Idle
    /\ UNCHANGED <<scanFrame, kw, page_num, total_saved, out_file, quits, exc>>

\* except Exception as e: logger.error("Page Error"); break
ScanPageError == prog = "run" /\ pc = "scan_while" /\ ScanNextKeyword

\* a card iteration that saves nothing
ScanSkip(e) ==
    /\ ev' = e /\ i' = i + 1
    /\ UNCHANGED <<scanFrame, pc, kw, page_num, ncards, total_saved, out_file, quits, exc>>

\* save_job(job_data); total_saved += 1.  A failing write is swallowed by save_job.
ScanSave(e, job_data, write_ok) ==
    /\ ev' = e /\ i' = i + 1
    /\ out_file' = IF write_ok
                   THEN [exists |-> TRUE, rows |-> Append(Rows(out_file), job_data.card)]
                   ELSE out_file
    /\ total_saved' = total_saved + 1
    /\ UNCHANGED <<scanFrame, pc, kw, page_num, ncards, quits, exc>>

\* one iteration of  for i in range(len(cards))  that reads cards[i]
ScanCard ==
    /\ prog = "run" /\ pc = "scan_for" /\ i < ncards
    /\ total_saved < MAX_JOBS_TO_SCRAPE
    /\ \E text \in CardTitles :
         LET relevance == ScanTitleFacts[text].relevance
             e0(rel, out) == CardEv("scan", Strip(text), rel, FALSE, "n/a", {}, NoDesc, out)
         IN  IF ScanTitleFacts[text].bad THEN ScanSkip(e0("none", "bad_kw"))
             ELSE IF relevance = "SKIP" THEN ScanSkip(e0(relevance, "irrelevant"))
             ELSE \E company \in Companies, href \in SH_Hrefs, fault \in {"none", "card_parse"} :
                  \E tr \in (IF fault = "none" THEN PaneTraces({company}, PaneDescs \cup {Absent})
                             ELSE {NoTrace}) :
                    LET job_data == scan_parse_job_data(text, company, href, fault, tr)
                        e(out)   == CardEv("scan", Strip(text), relevance, fault = "none",
                                           job_data.synced, job_data.reads,
                                           IF job_data.ret = "None" THEN NoDesc
                                           ELSE job_data.description, out)
                    IN  IF job_data.ret = "None" THEN ScanSkip(e("parse_none"))
                        ELSE IF relevance = "KEEP"
                             THEN IF "salary" \in job_data.keys
                                  THEN \E write_ok \in BOOLEAN :
                                         ScanSave(e("saved"), job_data, write_ok)
                                  ELSE ScanSkip(e("key_error"))
                        ELSE IF job_data.description # NA /\ ScanTech[job_data.description]
                             THEN \E write_ok \in BOOLEAN :
                                    ScanSave(e("saved"), job_data, write_ok)
                             ELSE ScanSkip(e(IF job_data.description = NA THEN "no_desc"
                                             ELSE "no_tech"))

\* an exception inside the card iteration (stale element, failing click): continue
ScanCardError ==
    /\ prog = "run" /\ pc = "scan_for" /\ i < ncards
    /\ total_saved < MAX_JOBS_TO_SCRAPE
    /\ ScanSkip([op |-> "card", site |-> "scan", title |-> <<>>, relevance |-> "none",
                 clicked |-> FALSE, synced |-> "n/a", reads |-> {}, desc |-> NoDesc,
                 out |-> "error", cause |-> "StaleElementReferenceException"])

\* the for loop ends: range exhausted, the cap test breaks, or the re-read list is
\* shorter than i  (if i >= len(cards): break)
ScanForEnd ==
    /\ prog = "run" /\ pc = "scan_for"
    /\ pc' = "scan_after" /\ ev' = Idle
    /\ UNCHANGED <<scanFrame, kw, page_num, i, ncards, total_saved, out_file, quits, exc>>

\* if total_saved >= MAX_JOBS_TO_SCRAPE: break
ScanCapBreak ==
    /\ prog = "run" /\ pc = "scan_after"
    /\ total_saved >= MAX_JOBS_TO_SCRAPE
    /\ ScanNextKeyword

\* a next-page step that does not test the page cap
ScanNextPage_no_page_cap ==
    /\ prog = "run" /\ pc = "scan_after"
    /\ total_saved < MAX_JOBS_TO_SCRAPE
    /\ page_num' = page_num + 1 /\ ev' = Idle /\ pc' = "scan_while"
    /\ UNCHANGED <<scanFrame, kw, i, ncards, total_saved, out_file, quits, exc>>

\* the next-page link is clicked; page_num += 1; if page_num > MAX_PAGES_PER_KEYWORD: break
ScanNextPage ==
    /\ prog = "run" /\ pc = "scan_after"
    /\ total_saved < MAX_JOBS_TO_SCRAPE
    /\ page_num' = page_num + 1 /\ ev' = Idle
    /\ IF page_num + 1 > MAX_PAGES_PER_KEYWORD
       THEN pc' = "scan_kw" /\ kw' = kw + 1
       ELSE pc' = "scan_while" /\ kw' = kw
    /\ UNCHANGED <<scanFrame, i, ncards, total_saved, out_file, quits, exc>>

\* no next-page link: break
ScanNoNextPage ==
    /\ prog = "run" /\ pc = "scan_after"
    /\ total_saved < MAX_JOBS_TO_SCRAPE
    /\ ScanNextKeyword

\* finally: driver.quit()
ScanFinally ==
    /\ prog = "run" /\ pc = "scan_finally"
    /\ quits' = quits + 1 /\ pc' = "done" /\ ev' = Idle
    /\ UNCHANGED <<scanFrame, kw, page_num, i, ncards, total_saved, out_file, exc>>

NextScan ==
    \/ ScanKeyword \/ ScanGetFails \/ ScanKeywordsDone
    \/ ScanPage \/ ScanPageError
    \/ ScanCard \/ ScanCardError \/ ScanForEnd
    \/ ScanCapBreak \/ ScanNextPage \/ ScanNoNextPage
    \/ ScanFinally

SpecScan == InitScan /\ [][NextScan]_vars

-----------------------------------------------------------------------------
(* Either program *)

Init == InitScraper \/ InitScan

Next == NextScraper \/ NextScan

Spec == Init /\ [][Next]_vars

\* Either program as one sequential process that keeps running: a step that can be taken
\* is eventually taken
SpecFair == Init /\ [][Next]_vars /\ WF_vars(Next)

-----------------------------------------------------------------------------
(* The synchronizer of parse_job_data, tick by tick *)

\* what the pane showed for the previous job
PrevPanes ==
    { [company |-> C_Acme, title |-> T_DataAnalyst, desc |-> D_Sql],
      [company |-> C_Beta, title |-> T_Chef, desc |-> D_Cook],
      [company |-> Absent, title |-> T_Intern, desc |-> D_Cook] }

\* parse_job_data has clicked the card (title, company); the pane shows the previous
\* job for n reads (for ever, when n is Never) and the clicked job from then on
InitSync ==
    /\ prog = "parse_job_data" /\ pc = "sync" /\ kw = 0 /\ page_num = 0 /\ i = 0 /\ ncards = 0
    /\ seen_urls = {} /\ seen_signatures = {} /\ new_jobs_buffer = <<>>
    /\ total_saved_this_run = 0 /\ prev_description = <<>> /\ total_saved = 0
    /\ out_file = NoFile /\ quits = 0 /\ exc = FALSE /\ ev = Idle /\ fn = Idle /\ NotVerifying
    /\ \E title \in {T_DataAnalyst, T_Analyst, T_Chef}, company \in {C_Acme, C_Beta},
          P \in PrevPanes, n \in (0..(POLL_TICKS - 1)) \cup {Never} :
         sy = [op |-> "sync", title |-> title, company |-> company,
               tr |-> [stale |-> P, n |-> n, company |-> company, desc |-> D_Cook],
               tick |-> 0, pane_matched |-> FALSE]

\* one iteration of  for _ in range(15): the pane_checks are tried against the pane
SyncTick ==
    /\ prog = "parse_job_data" /\ pc = "sync"
    /\ sy.tick < POLL_TICKS /\ ~sy.pane_matched
    /\ sy' = [sy EXCEPT !.tick = @ + 1,
                        !.pane_matched = tick_matches(sy.company, sy.title,
                                                      PaneAt(sy.tr, sy.title, sy.tick + 1))]
    /\ UNCHANGED <<runVars, fn, verifyVars>>

\* if pane_matched: break, the extraction goes on
SyncMatched ==
    /\ prog = "parse_job_data" /\ pc = "sync" /\ sy.pane_matched
    /\ pc' = "extract"
    /\ UNCHANGED <<prog, kw, page_num, i, ncards, seen_urls, seen_signatures, new_jobs_buffer,
                   total_saved_this_run, prev_description, total_saved, out_file, quits, exc,
                   ev, sy, fn, verifyVars>>

\* if not pane_matched: return None
SyncFailed ==
    /\ prog = "parse_job_data" /\ pc = "sync"
    /\ sy.tick = POLL_TICKS /\ ~sy.pane_matched
    /\ pc' = "return_none"
    /\ UNCHANGED <<prog, kw, page_num, i, ncards, seen_urls, seen_signatures, new_jobs_buffer,
                   total_saved_this_run, prev_description, total_saved, out_file, quits, exc,
                   ev, sy, fn, verifyVars>>

NextSync == SyncTick \/ SyncMatched \/ SyncFailed

SpecSync == InitSync /\ [][NextSync]_vars

-----------------------------------------------------------------------------
(* The classifier on its own: titles built from word fragments *)

TitleFragments ==
    { <<"D","a","t","a">>,
      <<" ">>,
      <<"S","c","i","e","n","t","i","s","t">>,
      <<"A","n","a","l","y","s","t">>,
      <<"I","n","t","e","r","n">>,
      <<"a","t","i","o","n","a","l">>,
      <<"S","e","n","i","o","r">>,
      <<"L","E","A","D">>,
      <<"e","r","s","h","i","p">>,
      <<"E","n","g","i","n","e","e","r">> }

MaxTitleFragments == 3

RECURSIVE TitlesOf(_)
TitlesOf(n) ==
    IF n = 0 THEN { <<>> }
    ELSE TitlesOf(n - 1) \cup { t \o f : t \in TitlesOf(n - 1), f \in TitleFragments }

InitClassify ==
    /\ prog = "none" /\ pc = "none" /\ kw = 0 /\ page_num = 0 /\ i = 0 /\ ncards = 0
    /\ seen_urls = {} /\ seen_signatures = {} /\ new_jobs_buffer = <<>>
    /\ total_saved_this_run = 0 /\ prev_description = <<>> /\ total_saved = 0
    /\ out_file = NoFile /\ quits = 0 /\ exc = FALSE /\ ev = Idle /\ sy = Idle
    /\ NotVerifying
    /\ \E t \in TitlesOf(MaxTitleFragments) : fn = [op |-> "input", title |-> t]

\* the title filter of run_scraper and scrape_linkedin_authenticated
ClassifyFinal ==
    /\ fn.op = "input"
    /\ fn' = [op |-> "classify_title", title |-> fn.title, out |-> classify_title(fn.title)]
    /\ UNCHANGED <<runVars, sy>>

\* the title filter of job_scan.py run
ClassifyScan ==
    /\ fn.op = "input"
    /\ fn' = [op |-> "scan_classify_title", title |-> fn.title,
              out |-> scan_classify_title(fn.title)]
    /\ UNCHANGED <<runVars, sy>>

NextClassify == ClassifyFinal \/ ClassifyScan

SpecClassify == InitClassify /\ [][NextClassify]_vars

-----------------------------------------------------------------------------
(* check_single_url *)

\* URLs found in the url column of OUTPUT_FILE
U_Sh  == Base \o H_A
U_Li  == <<"h","t","t","p","s",":","/","/","l","i","n","k","e","d","i","n",".","c","o","m","/","c">>
U_Www == <<"w","w","w",".","x",".","c","a">>

W_simplyhired == <<"s","i","m","p","l","y","h","i","r","e","d">>
W_linkedin    == <<"l","i","n","k","e","d","i","n">>

\* the markers of an expired posting
SH_EXPIRED ==
    << <<"j","o","b"," ","n","o"," ","l","o","n","g","e","r"," ","a","v","a","i","l","a","b","l","e">>,
       <<"t","h","i","s"," ","j","o","b"," ","h","a","s"," ","e","x","p","i","r","e","d">> >>
LI_EXPIRED ==
    << <<"n","o"," ","l","o","n","g","e","r"," ","a","c","c","e","p","t","i","n","g"," ",
         "a","p","p","l","i","c","a","t","i","o","n","s">>,
       <<"j","o","b"," ","i","s"," ","n","o"," ","l","o","n","g","e","r"," ",
         "a","v","a","i","l","a","b","l","e">> >>

\* page texts
P_Apply  == <<"A","p","p","l","y"," ","n","o","w">>
P_ShGone == <<"T","h","i","s"," ","J","o","b"," ","H","a","s"," ","E","x","p","i","r","e","d">>
P_LiGone == <<"N","o"," ","l","o","n","g","e","r"," ","a","c","c","e","p","t","i","n","g"," ",
              "a","p","p","l","i","c","a","t","i","o","n","s">>

\* the response to requests.get for the URL of one row
Response(raises, status_code, text) ==
    [raises |-> raises, status_code |-> status_code, text |-> text]

\* requests.get is not called: the URL is no string or does not start with "http"
NoRequest == Response(FALSE, 0, <<>>)

\* what requests.get(url, timeout=10) can do: raise a RequestException (timeout,
\* connection error), or return a response with a status code and a text
Responses ==
    { Response(TRUE, 0, <<>>),
      Response(FALSE, 200, P_Apply), Response(FALSE, 200, P_ShGone),
      Response(FALSE, 200, P_LiGone),
      Response(FALSE, 404, P_Apply), Response(FALSE, 410, P_Apply),
      Response(FALSE, 500, P_Apply) }

\* check_single_url(url), r being what requests.get does
check_single_url(url, r) ==
    IF url = NaN \/ ~StartsWith(url, Http) THEN FALSE
    ELSE IF r.raises THEN FALSE
    ELSE IF r.status_code \in {404, 410} THEN FALSE
    ELSE LET content_lower == Lower(r.text)
         IN  IF Contains(url, W_simplyhired) /\ HasAny(content_lower, SH_EXPIRED) THEN FALSE
             ELSE IF Contains(url, W_linkedin) /\ HasAny(content_lower, LI_EXPIRED) THEN FALSE
             ELSE TRUE

\* whether check_single_url gets as far as requests.get
sends_request(url) == url # NaN /\ StartsWith(url, Http)

-----------------------------------------------------------------------------
(* verify_and_clean_data *)

MaxRows == 3        \* most rows OUTPUT_FILE holds
max_workers == 2    \* size of the thread pool (10 in the code)

\* Python's True and False as values of a frame's column
B_True  == <<"<True>">>
B_False == <<"<False>">>

\* bool as a frame value
py_bool(b) == IF b THEN B_True ELSE B_False

\* the header and the rows of OUTPUT_FILE, by title, url and company
COLUMNS == <<"title", "url", "company">>
V_Rows ==
    { [title |-> T_DataAnalyst, url |-> U_Sh,  company |-> C_Acme],
      [title |-> T_Analyst,     url |-> U_Li,  company |-> NA],
      [title |-> T_Chef,        url |-> NA,    company |-> C_Beta],
      [title |-> T_Chef,        url |-> U_Www, company |-> C_Beta] }

CsvFile(columns, rows) == [exists |-> TRUE, columns |-> columns, rows |-> rows]

\* OUTPUT_FILE as verify_and_clean_data finds it: missing, without a url column, or with
\* the columns of the scraper and up to MaxRows rows
VerifyFiles ==
    {NoFile}
      \cup { CsvFile(<<"title", "company">>, << [title |-> T_Chef, company |-> C_Beta] >>) }
      \cup { CsvFile(COLUMNS, rows) : rows \in UNION { [1..n -> V_Rows] : n \in 0..MaxRows } }

\* pd.read_csv(OUTPUT_FILE)
read_csv(file) ==
    [columns |-> file.columns,
     rows    |-> [k \in 1..Len(file.rows) |->
                    [c \in DOMAIN file.rows[k] |-> read_csv_cell(file.rows[k][c])]]]

\* one cell as DataFrame.to_csv writes it: a missing value becomes the empty string
to_csv_cell(v) ==
    IF v = NaN THEN <<>>
    ELSE IF v = B_True THEN <<"T","r","u","e">>
    ELSE IF v = B_False THEN <<"F","a","l","s","e">>
    ELSE v

\* frame.to_csv(name, index=False)
to_csv(frame) ==
    CsvFile(frame.columns,
            [k \in 1..Len(frame.rows) |->
                [c \in DOMAIN frame.rows[k] |-> to_csv_cell(frame.rows[k][c])]])

\* urls = df["url"].tolist()
urls(frame) == [k \in 1..Len(frame.rows) |-> frame.rows[k].url]

\* executor.map(check_single_url, urls) submits one call per URL, in order
submit(us) ==
    [k \in 1..Len(us) |->
        [state |-> "pending", url |-> us[k], r |-> NoRequest, result |-> FALSE, seq |-> 0]]

Running(futs) == { k \in 1..Len(futs) : futs[k].state = "running" }
Finished(futs) == { k \in 1..Len(futs) : futs[k].state = "done" }

\* the results in the order in which the calls completed
results_as_completed(futs) ==
    [n \in 1..Len(futs) |-> futs[CHOOSE k \in 1..Len(futs) : futs[k].seq = n].result]

\* results = list(executor.map(...)): the results in the order of the submitted calls
map_results(futs) == [k \in 1..Len(futs) |-> futs[k].result]

\* df["is_valid"] = results
with_is_valid(frame, results) ==
    [columns |-> Append(frame.columns, "is_valid"),
     rows    |-> [k \in 1..Len(frame.rows) |->
                    [c \in DOMAIN frame.rows[k] \cup {"is_valid"} |->
                        IF c = "is_valid" THEN py_bool(results[k]) ELSE frame.rows[k][c]]]]

\* df[df["is_valid"] == True].drop(columns=["is_valid"])
df_clean(frame) ==
    [columns |-> SelectSeq(frame.columns, LAMBDA c : c # "is_valid"),
     rows    |-> LET kept == SelectSeq(frame.rows, LAMBDA row : row.is_valid = B_True)
                 IN  [k \in 1..Len(kept) |->
                        [c \in DOMAIN kept[k] \ {"is_valid"} |-> kept[k][c]]]]

verifyFrame == <<prog, kw, page_num, i, ncards, seen_urls, seen_signatures, new_jobs_buffer,
                 total_saved_this_run, prev_description, total_saved, quits, exc, sy, fn>>

InitVerify ==
    /\ prog = "verify_and_clean_data" /\ pc = "verify"
    /\ kw = 0 /\ page_num = 0 /\ i = 0 /\ ncards = 0
    /\ seen_urls = {} /\ seen_signatures = {} /\ new_jobs_buffer = <<>>
    /\ total_saved_this_run = 0 /\ prev_description = <<>> /\ total_saved = 0
    /\ quits = 0 /\ exc = FALSE /\ ev = Idle /\ sy = Idle /\ fn = Idle
    /\ out_file \in VerifyFiles
    /\ df = NoFrame /\ futures = <<>> /\ backup_file = NoFile

\* if not os.path.exists(OUTPUT_FILE): return
VerifyNoFile ==
    /\ prog = "verify_and_clean_data" /\ pc = "verify" /\ ~out_file.exists
    /\ pc' = "done"
    /\ UNCHANGED <<verifyFrame, out_file, ev, verifyVars>>

\* df = pd.read_csv(OUTPUT_FILE); if "url" not in df.columns: return
VerifyNoUrlColumn ==
    /\ prog = "verify_and_clean_data" /\ pc = "verify" /\ out_file.exists
    /\ \A k \in 1..Len(out_file.columns) : out_file.columns[k] # "url"
    /\ df' = read_csv(out_file) /\ ev' = [op |-> "read_csv", file |-> out_file]
    /\ pc' = "done"
    /\ UNCHANGED <<verifyFrame, out_file, futures, backup_file>>

\* df = pd.read_csv(OUTPUT_FILE); urls = df["url"].tolist(); the pool is created and
\* executor.map submits the calls
VerifyLoad ==
    /\ prog = "verify_and_clean_data" /\ pc = "verify" /\ out_file.exists
    /\ \E k \in 1..Len(out_file.columns) : out_file.columns[k] = "url"
    /\ df' = read_csv(out_file) /\ ev' = [op |-> "read_csv", file |-> out_file]
    /\ futures' = submit(urls(read_csv(out_file)))
    /\ pc' = "pool"
    /\ UNCHANGED <<verifyFrame, out_file, backup_file>>

\* an idle worker thread takes the oldest call of the queue
WorkerTakes(k) ==
    /\ prog = "verify_and_clean_data" /\ pc = "pool"
    /\ k \in 1..Len(futures) /\ futures[k].state = "pending"
    /\ \A j \in 1..(k - 1) : futures[j].state # "pending"
    /\ Cardinality(Running(futures)) < max_workers
    /\ futures' = [futures EXCEPT ![k].state = "running"]
    /\ UNCHANGED <<verifyFrame, pc, out_file, ev, df, backup_file>>

\* the worker's call check_single_url(url) returns
WorkerReturns(k) ==
    /\ prog = "verify_and_clean_data" /\ pc = "pool"
    /\ k \in 1..Len(futures) /\ futures[k].state = "running"
    /\ \E r \in (IF sends_request(futures[k].url) THEN Responses ELSE {NoRequest}) :
         futures' = [futures EXCEPT ![k] =
                        [state |-> "done", url |-> futures[k].url, r |-> r,
                         result |-> check_single_url(futures[k].url, r),
                         seq |-> Cardinality(Finished(futures)) + 1]]
    /\ UNCHANGED <<verifyFrame, pc, out_file, ev, df, backup_file>>

\* list(executor.map(...)) has every result; df["is_valid"] = results; the rows that
\* are not valid are dropped; if any was dropped the backup and the file are written
VerifyFinish ==
    /\ prog = "verify_and_clean_data" /\ pc = "pool"
    /\ Finished(futures) = 1..Len(futures)
    /\ LET results       == map_results(futures)
           marked        == with_is_valid(df, results)
           clean         == df_clean(marked)
           removed_count == Len(df.rows) - Len(clean.rows)
       IN  /\ df' = marked
           /\ IF removed_count > 0
              THEN backup_file' = to_csv(marked) /\ out_file' = to_csv(clean)
              ELSE UNCHANGED <<backup_file, out_file>>
    /\ pc' = "done"
    /\ UNCHANGED <<verifyFrame, ev, futures>>

NextVerify ==
    \/ VerifyNoFile \/ VerifyNoUrlColumn \/ VerifyLoad
    \/ \E k \in 1..MaxRows : WorkerTakes(k)
    \/ \E k \in 1..MaxRows : WorkerReturns(k)
    \/ VerifyFinish

SpecVerify == InitVerify /\ [][NextVerify]_vars

-----------------------------------------------------------------------------
(* clean_salary_text: the regular expressions, matched as re matches them *)

PyNone == <<"<None>">>       \* Python's None handed in as a text

IsDigit(c) == c \in {"0","1","2","3","4","5","6","7","8","9"}

\* the character at index p, or "" past the end
At(s, p) == IF p \in 1..Len(s) THEN s[p] ELSE ""

\* \s*  from index p: the index after the run of whitespace
RECURSIVE Spaces(_, _)
Spaces(s, p) == IF IsSpace(At(s, p)) THEN Spaces(s, p + 1) ELSE p

\* \d{0,n}  from index p, greedy
RECURSIVE Digits(_, _, _)
Digits(s, p, n) == IF n > 0 /\ IsDigit(At(s, p)) THEN Digits(s, p + 1, n - 1) ELSE p

\* a literal under re.IGNORECASE: the index after it, or 0
Lit(s, p, w) ==
    IF p + Len(w) - 1 <= Len(s) /\ \A j \in 1..Len(w) : LowerChar(s[p + j - 1]) = w[j]
    THEN p + Len(w) ELSE 0

\* (?:w1|w2|...) : the first alternative that matches, or 0
RECURSIVE Alt(_, _, _)
Alt(s, p, ws) ==
    IF ws = <<>> THEN 0
    ELSE IF Lit(s, p, Head(ws)) # 0 THEN Lit(s, p, Head(ws)) ELSE Alt(s, p, Tail(ws))

\* (?:[,\s]\d{3})*
RECURSIVE Thousands(_, _)
Thousands(s, p) ==
    IF (At(s, p) = "," \/ IsSpace(At(s, p))) /\ Digits(s, p + 1, 3) = p + 4
    THEN Thousands(s, p + 4) ELSE p

\* \s*[\d]{1,3}(?:[,\s]\d{3})*(?:\.\d+)?\s*[kK]?  : the index after it, or 0
Amount(s, p) ==
    LET d == Spaces(s, p)
        g == Thousands(s, Digits(s, d, 3))
        f == IF At(s, g) = "." /\ IsDigit(At(s, g + 1)) THEN Digits(s, g + 1, Len(s)) ELSE g
        w == Spaces(s, f)
    IN  IF ~IsDigit(At(s, d)) THEN 0
        ELSE IF LowerChar(At(s, w)) = "k" THEN w + 1 ELSE w

\* (?:CA?\$|C\$|\$)
Currency(s, p) == Alt(s, p, << <<"c","a","$">>, <<"c","$">>, <<"$">> >>)

\* \s*(?:-|en-dash|em-dash|to)\s*(?:CA?\$|C\$|\$)?\s*[\d]{1,3}...  : the index after it, or 0
RangeTail(s, p) ==
    LET sep == Alt(s, Spaces(s, p), << <<"-">>, <<"<en-dash>">>, <<"<em-dash>">>, <<"t","o">> >>)
        c   == Currency(s, Spaces(s, sep))
    IN  IF sep = 0 THEN 0
        ELSE Amount(s, IF c # 0 THEN c ELSE Spaces(s, sep))

SALARY_UNITS == << <<"h","o","u","r">>, <<"h","r">>, <<"y","e","a","r">>, <<"y","r">>,
                   <<"m","o","n","t","h">>, <<"m","o">>, <<"w","e","e","k">>, <<"w","k">>,
                   <<"d","a","y">>, <<"a","n","n","u","m">> >>

\* \s*(?:/|per\s*)?(?:hour|hr|year|yr|month|mo|week|wk|day|annum)
UnitTail(s, p) ==
    LET q     == Spaces(s, p)
        slash == Lit(s, q, <<"/">>)
        per   == Lit(s, q, <<"p","e","r">>)
    IN  IF slash # 0 /\ Alt(s, slash, SALARY_UNITS) # 0 THEN Alt(s, slash, SALARY_UNITS)
        ELSE IF per # 0 /\ Alt(s, Spaces(s, per), SALARY_UNITS) # 0
             THEN Alt(s, Spaces(s, per), SALARY_UNITS)
        ELSE Alt(s, q, SALARY_UNITS)

\* SALARY_RE.match at index p: the index after the match, or 0
SALARY_RE(s, p) ==
    LET a == Amount(s, Currency(s, p))
        r == IF RangeTail(s, a) # 0 THEN RangeTail(s, a) ELSE a
    IN  IF Currency(s, p) = 0 \/ a = 0 THEN 0
        ELSE IF UnitTail(s, r) # 0 THEN UnitTail(s, r) ELSE r

\* the digits of the first match only: a normalizer that drops the currency sign
clean_salary_digits_only(text) ==
    LET t == Join(<<" ">>, Split(text))
        hits == { p \in 1..Len(t) : SALARY_RE(t, p) # 0 }
        p == CHOOSE h \in hits : \A g \in hits : h <= g
    IN  IF text \in {PyNone, <<>>} \/ hits = {} THEN NA
        ELSE Strip(SubSeq(t, Currency(t, p), SALARY_RE(t, p) - 1))

\* clean_salary_text of the final variant; SALARY_RE.search takes the leftmost match
clean_salary_text(text) ==
    LET t == Join(<<" ">>, Split(text))
        hits == { p \in 1..Len(t) : SALARY_RE(t, p) # 0 }
        p == CHOOSE h \in hits : \A g \in hits : h <= g
    IN  IF text \in {PyNone, <<>>} THEN NA
        ELSE IF hits = {} THEN NA
        ELSE Strip(SubSeq(t, p, SALARY_RE(t, p) - 1))

\* [\d,]+(?:\.\d{2})?  : the index after it, or 0
RECURSIVE DigitsOrCommas(_, _)
DigitsOrCommas(s, p) ==
    IF IsDigit(At(s, p)) \/ At(s, p) = "," THEN DigitsOrCommas(s, p + 1) ELSE p

ScanAmount(s, p) ==
    LET g == DigitsOrCommas(s, p)
    IN  IF g = p THEN 0
        ELSE IF At(s, g) = "." /\ Digits(s, g + 1, 2) = g + 3 THEN g + 3 ELSE g

SCAN_SALARY_UNITS == << <<"y","e","a","r">>, <<"y","r">>, <<"a","n","n","u","m">>,
                        <<"h","o","u","r">>, <<"h","r">>, <<"m","o","n","t","h">>, <<"m","o">> >>

\* salary_pattern of job_scan.py, matched at index p: the index after the match, or 0
salary_pattern(s, p) ==
    LET a     == ScanAmount(s, Spaces(s, p + 1))
        w     == Spaces(s, a)
        dash  == Alt(s, w, << <<"-">>, <<"<en-dash>">>, <<"<em-dash>">> >>)
        d1    == Spaces(s, dash)
        d2    == Spaces(s, IF At(s, d1) = "$" THEN d1 + 1 ELSE d1)
        r     == IF dash # 0 /\ ScanAmount(s, d2) # 0 THEN ScanAmount(s, d2) ELSE w
        pre   == Alt(s, Spaces(s, r), << <<"a">>, <<"p","e","r">>, <<"/">> >>)
        unit  == IF pre = 0 THEN 0 ELSE Alt(s, Spaces(s, pre), SCAN_SALARY_UNITS)
    IN  IF At(s, p) # "$" \/ a = 0 THEN 0
        ELSE IF unit # 0 THEN unit ELSE r

\* clean_salary_text of job_scan.py: no whitespace normalisation before the search
scan_clean_salary_text(text) ==
    LET hits == { p \in 1..Len(text) : salary_pattern(text, p) # 0 }
        p == CHOOSE h \in hits : \A g \in hits : h <= g
    IN  IF text \in {PyNone, <<>>} THEN NA
        ELSE IF hits = {} THEN NA
        ELSE Strip(SubSeq(text, p, salary_pattern(text, p) - 1))

\* whether clean_salary_text gets as far as the regular expression: 'if not text' returns first
reaches_search(text) == text \notin {PyNone, <<>>}

\* texts handed to the normalizers: None, and every concatenation of a few fragments
SalaryFragments ==
    { <<"$">>, <<"C","A">>, <<"5">>, <<"0","0","0">>, <<",">>, <<" ">>, <<"\n">>,
      <<".","5">>, <<"k">>, <<"-">>, <<"t","o">>, <<"/">>, <<"h","r">>, <<"a">> }

MaxSalaryFragments == 4

RECURSIVE SalaryTexts(_)
SalaryTexts(n) ==
    IF n = 0 THEN { <<>> }
    ELSE SalaryTexts(n - 1) \cup { t \o f : t \in SalaryTexts(n - 1), f \in SalaryFragments }

InitSalary ==
    /\ prog = "none" /\ pc = "none" /\ kw = 0 /\ page_num = 0 /\ i = 0 /\ ncards = 0
    /\ seen_urls = {} /\ seen_signatures = {} /\ new_jobs_buffer = <<>>
    /\ total_saved_this_run = 0 /\ prev_description = <<>> /\ total_saved = 0
    /\ out_file = NoFile /\ quits = 0 /\ exc = FALSE /\ ev = Idle /\ sy = Idle
    /\ NotVerifying
    /\ \E t \in SalaryTexts(MaxSalaryFragments) \cup {PyNone} :
          fn = [op |-> "input", text |-> t, out |-> t, n |-> 0]

\* clean_salary_text of the final variant, on the input and then on its own result
CleanSalary ==
    /\ fn.op \in {"input", "clean_salary_text"}
    /\ fn.n < 2
    /\ fn' = [op |-> "clean_salary_text", text |-> fn.out, n |-> fn.n + 1,
              out |-> clean_salary_text(fn.out), searched |-> reaches_search(fn.out)]
    /\ UNCHANGED <<runVars, sy>>

\* clean_salary_text of job_scan.py, on the input and then on its own result
ScanCleanSalary ==
    /\ fn.op \in {"input", "scan_clean_salary_text"}
    /\ fn.n < 2
    /\ fn' = [op |-> "scan_clean_salary_text", text |-> fn.out, n |-> fn.n + 1,
              out |-> scan_clean_salary_text(fn.out), searched |-> reaches_search(fn.out)]
    /\ UNCHANGED <<runVars, sy>>

NextSalary == CleanSalary \/ ScanCleanSalary

SpecSalary == InitSalary /\ [][NextSalary]_vars

-----------------------------------------------------------------------------
(* qualifications: the items of the pane as stored in the record *)

\* texts of the span[data-testid="viewJobQualificationItem"] elements
QualItems == { <<"S","Q","L">>, <<" ","S","Q","L","\n">>, <<"P","y","t","h","o","n">>, <<>>, <<" ">> }

MaxQuals == 3

RECURSIVE QualLists(_)
QualLists(n) ==
    IF n = 0 THEN { <<>> }
    ELSE QualLists(n - 1) \cup { Append(l, q) : l \in QualLists(n - 1), q \in QualItems }

\* [f(x) for x in xs if x.strip()], stripped
RECURSIVE StrippedNonEmpty(_)
StrippedNonEmpty(xs) ==
    IF xs = <<>> THEN <<>>
    ELSE IF Strip(Head(xs)) # <<>> THEN <<Strip(Head(xs))>> \o StrippedNonEmpty(Tail(xs))
    ELSE StrippedNonEmpty(Tail(xs))

\* the de-dupe loop of extract_qualifications: seen is the set, out the list
RECURSIVE dedupe(_, _, _)
dedupe(quals, seen, out) ==
    IF quals = <<>> THEN out
    ELSE IF Head(quals) \notin seen
         THEN dedupe(Tail(quals), seen \cup {Head(quals)}, Append(out, Head(quals)))
         ELSE dedupe(Tail(quals), seen, out)

\* extract_qualifications of the retry variant; any exception gives []
extract_qualifications(items, fails) ==
    IF fails THEN <<>> ELSE dedupe(StrippedNonEmpty(items), {}, <<>>)

\* data["qualifications"] of the retry variant's parse_job_data
retry_qualifications(items, fails) ==
    LET quals == extract_qualifications(items, fails)
    IN  IF quals # <<>> THEN Join(<<";", " ">>, quals) ELSE NA

\* data["qualifications"] of the final variant's parse_job_data
qualifications(items, fails) ==
    LET joined == Join(<<";", " ">>, StrippedNonEmpty(items))
    IN  IF fails \/ joined = <<>> THEN NA ELSE joined

InitQuals ==
    /\ prog = "none" /\ pc = "none" /\ kw = 0 /\ page_num = 0 /\ i = 0 /\ ncards = 0
    /\ seen_urls = {} /\ seen_signatures = {} /\ new_jobs_buffer = <<>>
    /\ total_saved_this_run = 0 /\ prev_description = <<>> /\ total_saved = 0
    /\ out_file = NoFile /\ quits = 0 /\ exc = FALSE /\ ev = Idle /\ sy = Idle
    /\ NotVerifying
    /\ \E l \in QualLists(MaxQuals), f \in BOOLEAN :
          fn = [op |-> "input", items |-> l, fails |-> f]

\* the qualifications block of the final variant's parse_job_data
Qualifications ==
    /\ fn.op = "input"
    /\ fn' = [op |-> "qualifications", items |-> fn.items, fails |-> fn.fails,
              out |-> qualifications(fn.items, fn.fails)]
    /\ UNCHANGED <<runVars, sy>>

\* the qualifications block of the retry variant's parse_job_data
RetryQualifications ==
    /\ fn.op = "input"
    /\ fn' = [op |-> "retry_qualifications", items |-> fn.items, fails |-> fn.fails,
              out |-> retry_qualifications(fn.items, fn.fails)]
    /\ UNCHANGED <<runVars, sy>>

NextQuals == Qualifications \/ RetryQualifications

SpecQuals == InitQuals /\ [][NextQuals]_vars

-----------------------------------------------------------------------------
(* summarize_new_jobs_buffer and the flush that follows it *)

SUMMARY_MIN_WORDS == 2       \* 80 in the code
CHUNK_SIZE == 3              \* chunk_size = 450 in the code

\* descriptions of 0 to 4 words, and the sentinel
SumDescs ==
    { <<>>, NA, <<"s","q","l">>, <<"s","q","l"," "," ","e","t","l">>,
      <<"a"," ","b","\n","c">>, <<"a"," ","b"," ","c"," ","d">> }

\* what the model gives back for a text
Summary == <<"<summary>">>

\* the tokenizer, generate and decode calls process_text makes for a text
model_calls(text) ==
    LET words == Len(Split(text))
    IN  3 * ((words + CHUNK_SIZE - 1) \div CHUNK_SIZE) + 3

MaxCalls == 9

\* whether process_text returns the text before the try block
returned_as_is(text) == text = <<>> \/ text = NA \/ Len(Split(text)) < SUMMARY_MIN_WORDS

\* a process_text that gives the sentinel when a model call raises
process_text_sentinel_on_failure(text, fails_at) ==
    IF returned_as_is(text) THEN text
    ELSE IF fails_at \in 1..model_calls(text) THEN NA
    ELSE Summary

\* process_text; fails_at is the call that raises, 0 when none does
process_text(text, fails_at) ==
    IF returned_as_is(text) THEN text
    ELSE IF fails_at \in 1..model_calls(text) THEN text
    ELSE Summary

\* df["salary"].replace(r"^\s*$", "N/A", regex=True).fillna("N/A")
blank_salary_to_na(salary) == IF Strip(salary) = <<>> THEN NA ELSE salary

\* summarize_new_jobs_buffer: the frame it returns, or the exception that leaves it
summarize_new_jobs_buffer(new_jobs_list, transformers, loads, fails_at) ==
    IF new_jobs_list = <<>> \/ ~transformers
    THEN [raised |-> FALSE, rows |-> new_jobs_list]
    ELSE IF ~loads
    THEN [raised |-> TRUE, rows |-> <<>>]
    ELSE [raised |-> FALSE,
          rows |-> [k \in 1..Len(new_jobs_list) |->
                      [title |-> new_jobs_list[k].title,
                       description |-> process_text(new_jobs_list[k].description, fails_at[k]),
                       salary |-> blank_salary_to_na(new_jobs_list[k].salary)]]]

SumRecords ==
    { [title |-> t, description |-> d, salary |-> s] :
        t \in {T_Analyst}, d \in SumDescs, s \in {NA, <<>>} }

MaxBuffer == 2

InitSummarize ==
    /\ prog = "none" /\ pc = "flush" /\ kw = 0 /\ page_num = 0 /\ i = 0 /\ ncards = 0
    /\ seen_urls = {} /\ seen_signatures = {}
    /\ total_saved_this_run = 0 /\ prev_description = <<>> /\ total_saved = 0
    /\ out_file = NoFile /\ quits = 1 /\ exc = FALSE /\ ev = Idle /\ sy = Idle
    /\ NotVerifying
    /\ \E n \in 1..MaxBuffer :
          /\ new_jobs_buffer \in [1..n -> SumRecords]
          /\ \E calls \in [1..n -> 0..MaxCalls], transformers \in BOOLEAN, loads \in BOOLEAN :
                fn = [op |-> "input", transformers |-> transformers, loads |-> loads,
                      fails_at |-> calls]

\* df_final_new = summarize_new_jobs_buffer(new_jobs_buffer)
Summarize ==
    /\ pc = "flush" /\ fn.op = "input"
    /\ LET r == summarize_new_jobs_buffer(new_jobs_buffer, fn.transformers, fn.loads, fn.fails_at)
       IN  /\ fn' = [op |-> "summarized", transformers |-> fn.transformers, loads |-> fn.loads,
                     fails_at |-> fn.fails_at, rows |-> r.rows]
           /\ exc' = r.raised
           /\ pc' = IF r.raised THEN "done" ELSE "append"
    /\ UNCHANGED <<prog, kw, page_num, i, ncards, seen_urls, seen_signatures, new_jobs_buffer,
                   total_saved_this_run, prev_description, total_saved, out_file, quits,
                   ev, sy, verifyVars>>

\* df_final_new.to_csv(OUTPUT_FILE, mode="a", ...)
AppendSummarized ==
    /\ pc = "append"
    /\ out_file' = [exists |-> TRUE, rows |-> Rows(out_file) \o fn.rows]
    /\ pc' = "done"
    /\ UNCHANGED <<prog, kw, page_num, i, ncards, seen_urls, seen_signatures, new_jobs_buffer,
                   total_saved_this_run, prev_description, total_saved, quits, exc,
                   ev, sy, fn, verifyVars>>

NextSummarize == Summarize \/ AppendSummarized

SpecSummarize == InitSummarize /\ [][NextSummarize]_vars

-----------------------------------------------------------------------------
(* The salary stages: compensation block, pane text, job page in a new tab *)

OPEN_URL_FALLBACK == TRUE

\* a page: the text of [data-testid="viewJobBodyJobCompensation"] and of
\* [data-testid="viewJobBodyContainer"], Absent when the element is not there
SalaryPages ==
    [comp : {Absent, <<"p","a","y">>, <<"$","5","/","h","r">>},
     body : {Absent, <<"p","a","y">>, <<"p","a","y"," ","$","5","k">>}]

\* clean_salary_text(find_element(...).text); find_element raising is left to the caller
stage(text) == IF text = Absent THEN NA ELSE clean_salary_text(text)

\* the Salary block of the final variant's parse_job_data: the pane text is
\* consulted in the except branch only
final_salary(page) ==
    [salary |-> stage(IF page.comp # Absent THEN page.comp ELSE page.body),
     stages |-> IF page.comp # Absent THEN {"compensation"} ELSE {"compensation", "pane_text"}]

\* the end of _extract_salary_from_current_page: the whole job body, reached
\* when no selector gave a salary
body_fallback(sal, page) ==
    IF sal # NA
    THEN [salary |-> sal, stages |-> {"compensation"}]
    ELSE [salary |-> stage(page.body), stages |-> {"compensation", "pane_text"}]

\* _extract_salary_from_current_page: the selectors, then the whole job body
extract_salary_from_current_page(page) == body_fallback(stage(page.comp), page)

\* get_salary_with_retries on a page that stays as it is between the attempts
get_salary_with_retries(page) ==
    IF page.comp = Absent THEN [salary |-> NA, stages |-> {"compensation"}]
    ELSE extract_salary_from_current_page(page)

Windows == {"w1", "w2", "w3"}

InitChain ==
    /\ prog = "none" /\ pc = "salary" /\ kw = 0 /\ page_num = 0 /\ i = 0 /\ ncards = 0
    /\ seen_urls = {} /\ seen_signatures = {} /\ new_jobs_buffer = <<>>
    /\ total_saved_this_run = 0 /\ prev_description = <<>> /\ total_saved = 0
    /\ out_file = NoFile /\ quits = 0 /\ exc = FALSE /\ ev = Idle /\ sy = Idle
    /\ NotVerifying
    /\ \E pane \in SalaryPages, tab \in SalaryPages, url \in {U_Sh, NA, <<>>},
          others \in SUBSET {"w2"}, opens \in BOOLEAN, raises \in BOOLEAN :
          fn = [op |-> "input", pane |-> pane, tab |-> tab, url |-> url,
                opens |-> opens, raises |-> raises, others |-> others,
                window_handles |-> {"w1"} \cup others, current |-> "w1",
                existing_tabs |-> {}, opened |-> {},
                salary |-> NA, stages |-> {}]

\* the Salary block of the final variant's parse_job_data
FinalSalary ==
    /\ pc = "salary"
    /\ \E r \in {final_salary(fn.pane)} :
          fn' = [fn EXCEPT !.op = "final", !.salary = r.salary, !.stages = r.stages]
    /\ pc' = "done"
    /\ UNCHANGED <<prog, kw, page_num, i, ncards, seen_urls, seen_signatures, new_jobs_buffer,
                   total_saved_this_run, prev_description, total_saved, out_file, quits, exc,
                   ev, sy, verifyVars>>

\* retry variant: data["salary"] = get_salary_with_retries(...), then the test for the new tab
RetrySalary ==
    /\ pc = "salary"
    /\ \E r \in {get_salary_with_retries(fn.pane)} :
          /\ fn' = [fn EXCEPT !.op = "retry", !.salary = r.salary, !.stages = r.stages]
          /\ pc' = IF r.salary = NA /\ OPEN_URL_FALLBACK THEN "tab_call" ELSE "done"
    /\ UNCHANGED <<prog, kw, page_num, i, ncards, seen_urls, seen_signatures, new_jobs_buffer,
                   total_saved_this_run, prev_description, total_saved, out_file, quits, exc,
                   ev, sy, verifyVars>>

\* get_salary_by_opening_url_in_new_tab up to the try block: the url test,
\* window.open, the search for the new handle, the switch to it
TabCall ==
    /\ pc = "tab_call"
    /\ IF fn.url = <<>> \/ fn.url = NA
       THEN /\ fn' = [fn EXCEPT !.salary = NA, !.stages = @ \cup {"new_tab"}]
            /\ pc' = "done"
       ELSE IF ~fn.opens
       THEN /\ fn' = [fn EXCEPT !.salary = NA, !.stages = @ \cup {"new_tab"},
                                !.existing_tabs = fn.window_handles]
            /\ pc' = "done"
       ELSE LET new_handle == CHOOSE h \in Windows : h \notin fn.window_handles
            IN  /\ fn' = [fn EXCEPT !.existing_tabs = fn.window_handles,
                                    !.window_handles = @ \cup {new_handle},
                                    !.opened = {new_handle},
                                    !.current = new_handle,
                                    !.stages = @ \cup {"new_tab"}]
                /\ pc' = "tab_extract"
    /\ UNCHANGED <<prog, kw, page_num, i, ncards, seen_urls, seen_signatures, new_jobs_buffer,
                   total_saved_this_run, prev_description, total_saved, out_file, quits, exc,
                   ev, sy, verifyVars>>

\* the try block: wait for the job body, get_salary_with_retries; any Exception gives "N/A"
TabExtract ==
    /\ pc = "tab_extract"
    /\ fn' = [fn EXCEPT !.salary = IF fn.tab.body = Absent \/ fn.raises THEN NA
                                   ELSE get_salary_with_retries(fn.tab).salary]
    /\ pc' = "tab_close"
    /\ UNCHANGED <<prog, kw, page_num, i, ncards, seen_urls, seen_signatures, new_jobs_buffer,
                   total_saved_this_run, prev_description, total_saved, out_file, quits, exc,
                   ev, sy, verifyVars>>

\* a return that leaves the tab open when nothing was extracted
TabClose_only_with_salary ==
    /\ pc = "tab_close"
    /\ fn' = IF fn.salary = NA THEN fn
             ELSE [fn EXCEPT !.window_handles = @ \ {fn.current}, !.current = "w1"]
    /\ pc' = "done"
    /\ UNCHANGED <<prog, kw, page_num, i, ncards, seen_urls, seen_signatures, new_jobs_buffer,
                   total_saved_this_run, prev_description, total_saved, out_file, quits, exc,
                   ev, sy, verifyVars>>

\* driver.close(); driver.switch_to.window(original); return sal
TabClose ==
    /\ pc = "tab_close"
    /\ fn' = [fn EXCEPT !.window_handles = @ \ {fn.current}, !.current = "w1"]
    /\ pc' = "done"
    /\ UNCHANGED <<prog, kw, page_num, i, ncards, seen_urls, seen_signatures, new_jobs_buffer,
                   total_saved_this_run, prev_description, total_saved, out_file, quits, exc,
                   ev, sy, verifyVars>>

NextChain == FinalSalary \/ RetrySalary \/ TabCall \/ TabExtract \/ TabClose

SpecChain == InitChain /\ [][NextChain]_vars

-----------------------------------------------------------------------------
(* The synchronizers against a pane that stays as it is *)

\* a pane title that shares its first ten characters with "Data Analyst" and is another job
T_DataAnalytics == <<"D","a","t","a"," ","A","n","a","l","y","t","i","c","s"," ","L","e","a","d">>

\* what the company, title and description elements of the pane may show
ShownCompanies == { Absent, <<>>, C_Acme, <<"A","C","M","E"," ","C","o","r","p"," ">>, <<"A","c">> }
ShownTitles == { Absent, <<"D","a","t","a">>, <<" ","D","A","T","A"," ","A","N","A","L","Y","S","T">>,
                 T_DataAnalytics, T_Analyst2 }
ShownPanes == [company : ShownCompanies, title : ShownTitles, desc : {Absent, D_Sql, D_Cook}]

\* the card (title, company) has been clicked; the pane shows `pane` at every read
InitPane ==
    /\ pc = "sync" /\ kw = 0 /\ page_num = 0 /\ i = 0 /\ ncards = 0
    /\ seen_urls = {} /\ seen_signatures = {} /\ new_jobs_buffer = <<>>
    /\ total_saved_this_run = 0 /\ total_saved = 0
    /\ out_file = NoFile /\ quits = 0 /\ exc = FALSE /\ ev = Idle /\ fn = Idle /\ NotVerifying
    /\ prog \in {"parse_job_data", "scrape_linkedin_authenticated"}
    /\ prev_description \in {<<>>, D_Sql}
    /\ \E title \in {T_DataAnalyst, T_Analyst}, company \in {C_Acme, C_Beta},
          pane \in ShownPanes :
         sy = [op |-> "sync", title |-> title, company |-> company,
               tr |-> [stale |-> pane, n |-> Never, company |-> Absent, desc |-> Absent],
               tick |-> 0, pane_matched |-> FALSE]

\* one iteration of  for _ in range(15)  of scrape_linkedin_authenticated
LISyncTick ==
    /\ prog = "scrape_linkedin_authenticated" /\ pc = "sync"
    /\ sy.tick < POLL_TICKS /\ ~sy.pane_matched
    /\ sy' = [sy EXCEPT !.tick = @ + 1,
                        !.pane_matched = li_tick_matches(sy.title,
                                                         PaneAt(sy.tr, sy.title, sy.tick + 1))]
    /\ UNCHANGED <<runVars, fn, verifyVars>>

\* if pane_matched: break, the company is read from the pane
LISyncMatched ==
    /\ prog = "scrape_linkedin_authenticated" /\ pc = "sync" /\ sy.pane_matched
    /\ pc' = "extract"
    /\ UNCHANGED <<prog, kw, page_num, i, ncards, seen_urls, seen_signatures, new_jobs_buffer,
                   total_saved_this_run, prev_description, total_saved, out_file, quits, exc,
                   ev, sy, fn, verifyVars>>

\* if not pane_matched: continue
LISyncFailed ==
    /\ prog = "scrape_linkedin_authenticated" /\ pc = "sync"
    /\ sy.tick = POLL_TICKS /\ ~sy.pane_matched
    /\ pc' = "continue"
    /\ UNCHANGED <<prog, kw, page_num, i, ncards, seen_urls, seen_signatures, new_jobs_buffer,
                   total_saved_this_run, prev_description, total_saved, out_file, quits, exc,
                   ev, sy, fn, verifyVars>>

NextPane == SyncTick \/ SyncMatched \/ SyncFailed \/ LISyncTick \/ LISyncMatched \/ LISyncFailed

SpecPane == InitPane /\ [][NextPane]_vars

-----------------------------------------------------------------------------
(* fix_doubled_title on its own: titles built from fragments *)

DoubledFragments == { <<"a">>, <<"b","c">>, <<" ">>, <<"a","b","c">>, <<"a"," ","a">> }

MaxDoubledFragments == 4

RECURSIVE DoubledTexts(_)
DoubledTexts(n) ==
    IF n = 0 THEN { <<>> }
    ELSE DoubledTexts(n - 1) \cup { t \o f : t \in DoubledTexts(n - 1), f \in DoubledFragments }

InitDoubled ==
    /\ prog = "none" /\ pc = "none" /\ kw = 0 /\ page_num = 0 /\ i = 0 /\ ncards = 0
    /\ seen_urls = {} /\ seen_signatures = {} /\ new_jobs_buffer = <<>>
    /\ total_saved_this_run = 0 /\ prev_description = <<>> /\ total_saved = 0
    /\ out_file = NoFile /\ quits = 0 /\ exc = FALSE /\ ev = Idle /\ sy = Idle
    /\ NotVerifying
    /\ \E t \in DoubledTexts(MaxDoubledFragments) :
          fn = [op |-> "input", input |-> t, text |-> t, out |-> t, n |-> 0]

\* fix_doubled_title on the input, and then on its own result
FixDoubled ==
    /\ fn.op \in {"input", "fix"}
    /\ fn.n < 2
    /\ fn' = [fn EXCEPT !.op = "fix", !.text = fn.out, !.out = fix_doubled_title(fn.out),
                        !.n = fn.n + 1]
    /\ UNCHANGED <<runVars, sy>>

\* fix_doubled_title(t + " " + t), the title repeated after a space
FixSpaced ==
    /\ fn.op = "input"
    /\ fn' = [fn EXCEPT !.op = "fix_spaced", !.text = fn.input \o <<" ">> \o fn.input,
                        !.out = fix_doubled_title(fn.input \o <<" ">> \o fn.input), !.n = 1]
    /\ UNCHANGED <<runVars, sy>>

\* fix_doubled_title(t + t), the title repeated without a space
FixJoined ==
    /\ fn.op = "input"
    /\ fn' = [fn EXCEPT !.op = "fix_joined", !.text = fn.input \o fn.input,
                        !.out = fix_doubled_title(fn.input \o fn.input), !.n = 1]
    /\ UNCHANGED <<runVars, sy>>

NextDoubled == FixDoubled \/ FixSpaced \/ FixJoined

SpecDoubled == InitDoubled /\ [][NextDoubled]_vars

-----------------------------------------------------------------------------
(* Properties *)

\* which keyword lists a title meets, straight from the lists
TitleTerms ==
    [t \in RawTitles \cup { Strip(text) : text \in CardTitles } |->
        [bad         |-> HasAny(Lower(t), BAD_KEYWORDS),
         strong      |-> HasAny(Lower(t), STRONG_KEYWORDS),
         ambiguous   |-> HasAny(Lower(t), AMBIGUOUS_KEYWORDS),
         scan_bad    |-> HasAny(Lower(t), SCAN_BAD_KEYWORDS),
         scan_strong |-> HasAny(Lower(t), SCAN_STRONG_KEYWORDS)]] @@ <<>>

\* which descriptions hold a technical term, straight from the lists
DescTerms ==
    [d \in PaneDescs \cup {NA} |->
        [tech      |-> HasAny(Lower(d), TECH_KEYWORDS),
         scan_tech |-> HasAny(Lower(d), SCAN_TECH_KEYWORDS)]] @@ <<>>

Kept == {"buffered", "saved"}

\* C1. Exclusion precedence: in job_scan.py's run, in run_scraper's SimplyHired loop and
\* in scrape_linkedin_authenticated, a card whose lowercased title contains a BAD_KEYWORDS
\* term is never saved or buffered, whatever strong or ambiguous terms the title also
\* contains: the card iteration ends without keeping it, and no kept record has such a title.
C1_ExclusionPrecedence ==
    /\ (ev.op = "card" /\ ev.site \in {"sh", "li"} /\ TitleTerms[ev.title].bad)
          => ev.out \notin Kept
    /\ (ev.op = "card" /\ ev.site = "scan" /\ TitleTerms[ev.title].scan_bad)
          => ev.out \notin Kept
    /\ \A k \in 1..Len(new_jobs_buffer) : ~TitleTerms[new_jobs_buffer[k].title].bad
    /\ prog = "run" => \A k \in 1..Len(Rows(out_file)) :
                          ~TitleTerms[Rows(out_file)[k].title].scan_bad

\* "Senior Data Scientist Intern", which holds a strong term too, was skipped as excluded
C1_Witness ==
    /\ ev.op = "card" /\ ev.title = T_Intern /\ ev.out = "bad_kw"
    /\ TitleTerms[ev.title].strong /\ TitleTerms[ev.title].bad

\* C2. A title that contains a STRONG_KEYWORDS term and no BAD_KEYWORDS term
\* (case-insensitively) is classified KEEP_IMMEDIATE by the final variant and KEEP by
\* job_scan.py, also when it contains an AMBIGUOUS_KEYWORDS term.
C2_StrongIsKept ==
    /\ (fn.op = "classify_title"
            /\ HasAny(Lower(fn.title), STRONG_KEYWORDS)
            /\ ~HasAny(Lower(fn.title), BAD_KEYWORDS))
          => fn.out = "KEEP_IMMEDIATE"
    /\ (fn.op = "scan_classify_title"
            /\ HasAny(Lower(fn.title), SCAN_STRONG_KEYWORDS)
            /\ ~HasAny(Lower(fn.title), SCAN_BAD_KEYWORDS))
          => fn.out = "KEEP"

\* "Data Analyst" holds the strong term "data analyst" and the ambiguous term "analyst"
C2_Witness ==
    /\ fn.op = "classify_title" /\ fn.title = T_DataAnalyst
    /\ HasAny(Lower(fn.title), AMBIGUOUS_KEYWORDS)
    /\ fn.out = "KEEP_IMMEDIATE"

\* C3. In run_scraper, a title with no BAD_KEYWORDS term and no STRONG_KEYWORDS term is
\* classified CHECK_DESCRIPTION when it contains an AMBIGUOUS_KEYWORDS term and SKIP
\* otherwise; a card classified SKIP is not buffered, and no buffered record has a title
\* that would be classified SKIP.
C3_AmbiguousOrSkip ==
    /\ (ev.op = "card" /\ ev.relevance # "none"
            /\ ~TitleTerms[ev.title].bad /\ ~TitleTerms[ev.title].strong)
          => ev.relevance = (IF TitleTerms[ev.title].ambiguous
                             THEN "CHECK_DESCRIPTION" ELSE "SKIP")
    /\ (ev.op = "card" /\ ev.relevance = "SKIP") => ev.out \notin Kept
    /\ \A k \in 1..Len(new_jobs_buffer) :
         \/ TitleTerms[new_jobs_buffer[k].title].strong
         \/ TitleTerms[new_jobs_buffer[k].title].ambiguous

\* "Chef" was classified SKIP and dropped, after "Analyst" had been classified
\* CHECK_DESCRIPTION and buffered
C3_Witness ==
    /\ ev.op = "card" /\ ev.title = T_Chef /\ ev.relevance = "SKIP" /\ ev.out = "irrelevant"
    /\ Len(new_jobs_buffer) >= 1 /\ new_jobs_buffer[1].title = T_Analyst

\* the description confirms a CHECK title: it is not "N/A" and holds a technical term
Confirms(e) ==
    /\ e.desc # NA
    /\ IF e.site = "scan" THEN DescTerms[e.desc].scan_tech ELSE DescTerms[e.desc].tech

\* a card iteration that extracted a record for a title classified CHECK
CheckRecord(e) ==
    /\ e.op = "card" /\ e.relevance \in {"CHECK_DESCRIPTION", "CHECK"}
    /\ e.desc # NoDesc

\* C4 as stated: a record whose title was classified CHECK_DESCRIPTION is saved or
\* buffered if and only if its description is not "N/A" and contains a TECH_KEYWORDS term.
C4_AsStated == CheckRecord(ev) => (ev.out \in Kept <=> Confirms(ev))

\* C4. A record whose title was classified CHECK_DESCRIPTION and that run_scraper's
\* SimplyHired loop did not reject as a duplicate (URL or signature already seen) is saved
\* or buffered if and only if its description is not "N/A" and contains a TECH_KEYWORDS term.
C4_SavedIffConfirmed ==
    (CheckRecord(ev) /\ ev.out \notin {"dup_url", "dup_sig"})
        => (ev.out \in Kept <=> Confirms(ev))

\* "Analyst" with the description "We use SQL" was buffered
C4_Witness ==
    /\ ev.op = "card" /\ ev.title = T_Analyst /\ ev.relevance = "CHECK_DESCRIPTION"
    /\ ev.desc = D_Sql /\ ev.out = "buffered"

\* C5 as stated: in parse_job_data of the final variant, when the pane shows the previous
\* job for N < 15 reads and the clicked job from then on, pane_matched becomes true at
\* tick N + 1 and at no earlier tick.
C5_SyncAtFirstFreshTick ==
    (sy.op = "sync" /\ sy.tr.n < POLL_TICKS)
        => /\ sy.pane_matched => sy.tick = sy.tr.n + 1
           /\ sy.tick >= sy.tr.n + 1 => sy.pane_matched

\* C6. In run_scraper's SimplyHired loop, when none of the 15 ticks of parse_job_data
\* finds the pane matching the clicked card, parse_job_data returns None without reading
\* the description, salary or qualifications, and the card iteration buffers nothing.
C6_SyncFailureAbandons ==
    [][ (ev'.op = "card" /\ ev'.site = "sh" /\ ev'.synced = "no")
            => /\ ev'.reads = {} /\ ev'.out = "parse_none"
               /\ UNCHANGED <<new_jobs_buffer, seen_urls, seen_signatures,
                              total_saved_this_run>> ]_vars

\* a card with a strong title was clicked and the pane never matched it
C6_Witness ==
    /\ ev.op = "card" /\ ev.site = "sh" /\ ev.clicked /\ ev.synced = "no"
    /\ ev.relevance = "KEEP_IMMEDIATE" /\ ev.out = "parse_none"

\* C7 as stated: in job_scan.py, when the 7-second wait for the pane to show the clicked
\* card's title times out, run() saves no record for the card and does not increment
\* total_saved, whatever the relevance of the title.
C7_TimeoutAbandons ==
    (ev.op = "card" /\ ev.site = "scan" /\ ev.synced = "no") => ev.out \notin Kept

\* the wait of job_scan.py timed out on a card with a strong title
C7_Witness ==
    /\ ev.op = "card" /\ ev.site = "scan" /\ ev.synced = "no" /\ ev.relevance = "KEEP"

\* the signature (lowercased, trimmed title; lowercased, trimmed company) of a record
RecordSigs ==
    [title \in RawTitles, company \in Companies |->
        <<Strip(Lower(title)), Strip(Lower(company))>>] @@ <<>>

\* the signatures of the rows of the output file a previous run left
PriorSigs ==
    [f \in OldFiles |->
        { <<Strip(Lower(f.rows[k].title)), Strip(Lower(f.rows[k].company))>> :
            k \in 1..Len(f.rows) }] @@ <<>>

SigOf(rec) == RecordSigs[rec.title, rec.company]

\* this step appends one record to new_jobs_buffer
Appends ==
    /\ Len(new_jobs_buffer') = Len(new_jobs_buffer) + 1
    /\ SubSeq(new_jobs_buffer', 1, Len(new_jobs_buffer)) = new_jobs_buffer

Appended == new_jobs_buffer'[Len(new_jobs_buffer')]

\* C8. In run_scraper, SimplyHired loop and scrape_linkedin_authenticated together, no
\* record is appended to new_jobs_buffer whose URL is in seen_urls, whether the URL was
\* loaded from the output file at the start or inserted when a record was buffered.
C8_SeenUrlNeverBuffered ==
    [][ /\ new_jobs_buffer' # new_jobs_buffer => Appends
        /\ Appends => Appended.url \notin seen_urls ]_vars

\* without a prior file, a card came up with the URL of a record buffered earlier in the
\* run and was dropped
C8_Witness ==
    /\ ev.op = "card" /\ ev.out \in {"dup_url_card", "dup_url"}
    /\ ~out_file.exists /\ Len(new_jobs_buffer) >= 1
    /\ \E k \in 1..Len(new_jobs_buffer) : new_jobs_buffer[k].url \in seen_urls

\* C9. In run_scraper, no record is buffered whose signature is already in
\* seen_signatures: no two buffered records share a signature and no buffered record has
\* the signature of a row of the prior output file, whatever their URLs and providers.
C9_SeenSignatureNeverBuffered ==
    [][ /\ Appends => SigOf(Appended) \notin seen_signatures
        /\ \A j, k \in 1..Len(new_jobs_buffer') :
             j # k => SigOf(new_jobs_buffer'[j]) # SigOf(new_jobs_buffer'[k])
        /\ pc' # "done" =>
             \A k \in 1..Len(new_jobs_buffer') :
                SigOf(new_jobs_buffer'[k]) \notin PriorSigs[out_file'] ]_vars

\* a LinkedIn card with the title and company of a record buffered from SimplyHired was
\* dropped as a duplicate
C9_Witness ==
    /\ ev.op = "card" /\ ev.site = "li" /\ ev.out = "dup_sig"
    /\ ~out_file.exists /\ Len(new_jobs_buffer) = 1
    /\ new_jobs_buffer[1].url \in { SHUrls[href] : href \in SH_Hrefs }

\* C10. During run_scraper, seen_urls and seen_signatures only grow, and an element is
\* inserted only by the step that appends a record to new_jobs_buffer: the URL and the
\* signature of that record.
C10_SeenSetsOnlyGrow ==
    [][ /\ seen_urls \subseteq seen_urls'
        /\ seen_signatures \subseteq seen_signatures'
        /\ (seen_urls' # seen_urls \/ seen_signatures' # seen_signatures)
              => /\ Appends
                 /\ seen_urls' \ seen_urls \subseteq {Appended.url}
                 /\ seen_signatures' \ seen_signatures \subseteq {SigOf(Appended)} ]_vars

\* two records were buffered and both seen sets hold what they added
C10_Witness ==
    /\ Len(new_jobs_buffer) >= 2
    /\ new_jobs_buffer[1].url # new_jobs_buffer[2].url
    /\ {new_jobs_buffer[1].url, new_jobs_buffer[2].url} \subseteq seen_urls
    /\ {SigOf(new_jobs_buffer[1]), SigOf(new_jobs_buffer[2])} \subseteq seen_signatures

\* C11 as stated: every record run_scraper buffers, and so every row its flush appends to
\* the output file, has a non-empty URL that begins with "http", whether the SimplyHired
\* loop or scrape_linkedin_authenticated buffered it.
C11_PersistedUrlAbsolute ==
    prog = "run_scraper" =>
        \A k \in 1..Len(new_jobs_buffer) : StartsWith(new_jobs_buffer[k].url, Http)

\* a LinkedIn card without a link was buffered, and the flush wrote its row, with the
\* URL "N/A", to a fresh output file
C11_Witness ==
    /\ prog = "run_scraper" /\ pc = "done"
    /\ Len(new_jobs_buffer) = 1 /\ new_jobs_buffer[1].url = NA
    /\ out_file.exists /\ out_file.rows = new_jobs_buffer

\* the record cap is reached: len(new_jobs_buffer) in run_scraper, total_saved in run
AtCap ==
    IF prog = "run_scraper" THEN Len(new_jobs_buffer) >= MAX_JOBS_TO_SCRAPE
    ELSE total_saved >= MAX_JOBS_TO_SCRAPE

\* this step is one iteration of a for-card loop
CardStep == ev'.op = "card" /\ i' = i + 1

\* C12. The record cap is exact: new_jobs_buffer (run_scraper, both provider phases) and
\* total_saved (job_scan.py) never exceed MAX_JOBS_TO_SCRAPE, and once the cap is reached
\* no step is a card iteration any more: no card of the page, of a later page, of a later
\* keyword or of the later provider is clicked, buffered or saved.
C12_CapIsExact ==
    [][ /\ Len(new_jobs_buffer') <= MAX_JOBS_TO_SCRAPE
        /\ total_saved' <= MAX_JOBS_TO_SCRAPE
        /\ AtCap => /\ ~CardStep
                    /\ new_jobs_buffer' = new_jobs_buffer
                    /\ total_saved' = total_saved ]_vars

\* the cap was reached in the middle of a page: cards of the page remain
C12_Witness ==
    /\ AtCap /\ pc \in {"sh_for", "li_for", "scan_for"} /\ i < ncards
    /\ ev.op = "card" /\ ev.out \in Kept

ForStates == {"sh_for", "li_for", "scan_for"}

\* this step reads the cards of a result page and enters the for-card loop
PageScanStarts == pc' \in ForStates /\ pc \notin ForStates

\* C13. For each keyword at most MAX_PAGES_PER_KEYWORD result pages are scanned, in
\* job_scan.py, in run_scraper's SimplyHired loop and in scrape_linkedin_authenticated:
\* the cards of a page are read only while page_num is within the page cap, a further
\* page of a keyword is scanned only below the record cap, and the step after a page
\* either goes to the next page of the keyword or leaves the keyword.
C13_PageCap ==
    [][ /\ pc' \in ForStates => page_num' \in 1..MAX_PAGES_PER_KEYWORD
        /\ (PageScanStarts /\ page_num' > 1) => ~AtCap
        /\ pc \in {"sh_after", "li_after", "scan_after"} =>
              \/ /\ kw' = kw /\ page_num' = page_num + 1
                 /\ pc # "li_after" => ~AtCap
              \/ kw' = kw + 1 /\ pc' \in {"sh_kw", "li_kw", "scan_kw"} ]_vars

\* the page cap ended a keyword's pagination: the next page was asked for below the
\* record cap, and page_num passed MAX_PAGES_PER_KEYWORD
C13_Witness ==
    /\ page_num = MAX_PAGES_PER_KEYWORD + 1 /\ ~AtCap
    /\ pc \in {"sh_while", "li_while", "scan_kw"}

\* C14 as stated: in run_scraper a page-level failure of one keyword ends only that
\* keyword's pagination. A step taken at the wait for the results list either reads the
\* cards of the page or goes on to the next keyword (and from there to the manual gate
\* and the LinkedIn phase); it never leaves the loop over KEYWORDS with an exception.
C14_PageFailureEndsKeywordOnly ==
    [][ (prog = "run_scraper" /\ pc = "sh_while")
            => (pc' \in {"sh_for", "sh_kw"} /\ ~exc') ]_vars

\* the last for-card iteration found the re-read card list too short for its index
ListShrank == ev.op = "card" /\ "cause" \in DOMAIN ev /\ ev.cause = "IndexError"

\* C15 as stated: in run_scraper's SimplyHired loop, once the re-read card list has no
\* index i, processing of the page stops: the next step does not process a card of a
\* greater index of the same page.
C15_ShrunkListStopsPage ==
    [][ (prog = "run_scraper" /\ pc = "sh_for" /\ ListShrank)
            => ~(CardStep /\ pc' = "sh_for" /\ ~ListShrank') ]_vars

\* C16. In every execution of run_scraper and of job_scan.py run(), driver.quit() is
\* called exactly once: never twice, the run reaches its end, and at the end the call has
\* been made, whether the loops completed, a cap ended them or an exception left them;
\* in run_scraper the output file is written only after the call.
C16_QuitExactlyOnce ==
    /\ [](quits <= 1 /\ (pc = "done" => quits = 1))
    /\ [][(prog = "run_scraper" /\ out_file' # out_file) => quits = 1]_vars
    /\ <>(pc = "done")

\* run_scraper ended after an exception had left the scrape loops: the browser was quit
\* and the record buffered before the exception was flushed
C16_Witness ==
    /\ prog = "run_scraper" /\ pc = "done" /\ exc /\ quits = 1
    /\ Len(new_jobs_buffer) = 1 /\ out_file.exists

Verified ==
    /\ prog = "verify_and_clean_data" /\ pc = "done"
    /\ ev.op = "read_csv" /\ Len(futures) = Len(ev.file.rows)
    /\ \E k \in 1..Len(ev.file.columns) : ev.file.columns[k] = "url"

\* the indices of the rows whose URL was classified live, in file order
LiveIdx == SelectSeq([k \in 1..Len(futures) |-> k], LAMBDA k : futures[k].result)

\* the rows of the file as it was read whose URL was classified live
LiveRows == [j \in 1..Len(LiveIdx) |-> ev.file.rows[LiveIdx[j]]]

\* C18 as stated: after verify_and_clean_data the output file holds exactly the rows
\* whose URL was classified live, in their order and with the original columns; if a row
\* was removed the backup file holds the file as it was before the clean, same rows and
\* same columns; if no row was removed neither file is written.
C18_CleanAndBackup ==
    Verified =>
        IF Len(LiveIdx) < Len(ev.file.rows)
        THEN /\ out_file = CsvFile(ev.file.columns, LiveRows)
             /\ backup_file = ev.file
        ELSE /\ out_file = ev.file
             /\ ~backup_file.exists

\* a clean that removed the second of two rows and wrote the backup
C18_Witness ==
    /\ Verified /\ Len(ev.file.rows) = 2 /\ LiveIdx = <<1>>
    /\ backup_file.exists /\ Len(out_file.rows) = 1

\* C19. In verify_and_clean_data at most max_workers calls of check_single_url run at a
\* time, and whatever the order in which the calls are taken and return, the k-th entry
\* of the is_valid column is the verdict for the k-th URL of the file as answered to that
\* call, and the cleaned file holds the rows with a live verdict; a step of a worker
\* changes the state of one call only, never the frame or a file.
C19_ResultsKeepInputOrder ==
    /\ [](Cardinality(Running(futures)) <= max_workers)
    /\ [](Verified =>
            /\ \A k \in 1..Len(futures) :
                 /\ futures[k].url = read_csv_cell(ev.file.rows[k].url)
                 /\ df.rows[k].is_valid =
                        py_bool(check_single_url(read_csv_cell(ev.file.rows[k].url),
                                                 futures[k].r))
            /\ Len(LiveIdx) < Len(ev.file.rows) =>
                 /\ Len(out_file.rows) = Len(LiveIdx)
                 /\ \A j \in 1..Len(LiveIdx) :
                      out_file.rows[j].title = ev.file.rows[LiveIdx[j]].title)
    /\ [][(pc = "pool" /\ pc' = "pool") =>
             /\ UNCHANGED <<df, out_file, backup_file>>
             /\ \E k \in 1..Len(futures) :
                  \A j \in 1..Len(futures) : j # k => futures'[j] = futures[j]]_vars

\* the second call returned before the first, with the opposite verdict, and the first
\* row was the one removed
C19_Witness ==
    /\ Verified /\ Len(futures) >= 2
    /\ futures[2].seq < futures[1].seq
    /\ ~futures[1].result /\ futures[2].result
    /\ futures[1].r.status_code = 404
    /\ Len(out_file.rows) = Len(ev.file.rows) - 1

\* the page of response r carries an expired marker of the provider of the URL
ExpiredMarker(url, r) ==
    \/ Contains(url, W_simplyhired) /\ HasAny(Lower(r.text), SH_EXPIRED)
    \/ Contains(url, W_linkedin) /\ HasAny(Lower(r.text), LI_EXPIRED)

\* C20 as stated: check_single_url returns True only for a response with a 2xx status
\* and no expired marker; a request that fails or times out, a status that is not 2xx
\* and an expired marker each give False.
C20_ValidOnly2xx ==
    \A k \in Finished(futures) :
        futures[k].result <=>
            /\ sends_request(futures[k].url)
            /\ ~futures[k].r.raises
            /\ futures[k].r.status_code \in 200..299
            /\ ~ExpiredMarker(futures[k].url, futures[k].r)

\* a call whose request timed out or failed returned False
C20_Witness ==
    \E k \in Finished(futures) :
        sends_request(futures[k].url) /\ futures[k].r.raises /\ ~futures[k].result


-----------------------------------------------------------------------------
\* C21: clean_salary_text is idempotent in both programs: applied to its own
\* result it returns that result again, the sentinel "N/A" included.
C21_SalaryIdempotent ==
    [][ fn.op \in {"clean_salary_text", "scan_clean_salary_text"} => fn'.out = fn.out ]_vars

\* a salary with its unit was cut out of a longer text and normalized a second time
C21_Witness ==
    /\ fn.op = "clean_salary_text"
    /\ fn.n = 2
    /\ fn.out = <<"$","5","h","r">>

\* the text holds a currency sign followed, after optional whitespace, by a digit
HasCurrencyDigits(text) ==
    /\ text # PyNone
    /\ \E p \in 1..Len(text) : text[p] = "$" /\ IsDigit(At(text, Spaces(text, p + 1)))

\* C22: clean_salary_text returns "N/A" for "", for None and for every text
\* without currency-prefixed digits, and for "" and None it returns before the
\* regular expression is evaluated.
C22_NoCurrencyDigitsGivesSentinel ==
    fn.op \in {"clean_salary_text", "scan_clean_salary_text"} =>
        /\ fn.text \in {PyNone, <<>>} => (fn.out = NA /\ ~fn.searched)
        /\ ~HasCurrencyDigits(fn.text) => fn.out = NA

\* job_scan.py's normalizer was handed a currency sign followed by a comma
C22_Witness ==
    /\ fn.op = "scan_clean_salary_text"
    /\ fn.n = 1
    /\ fn.text = <<"$", ",">>


\* the trimmed, non-empty items whose text did not occur at an earlier index
FirstSeen(items) ==
    LET t == StrippedNonEmpty(items)
        keep == { k \in 1..Len(t) : \A j \in 1..(k - 1) : t[j] # t[k] }
        nth(n) == CHOOSE k \in keep : Cardinality({ j \in keep : j <= k }) = n
    IN  [n \in 1..Cardinality(keep) |-> t[nth(n)]]

\* C23: the qualifications value stored by the final variant's parse_job_data is
\* the trimmed, non-empty items of the pane without duplicates, in first-seen
\* order, joined with "; ", and "N/A" when there is no item.
C23_QualificationsDeduplicated ==
    (fn.op = "qualifications" /\ ~fn.fails) =>
        fn.out = (IF FirstSeen(fn.items) = <<>> THEN NA
                  ELSE Join(<<";", " ">>, FirstSeen(fn.items)))

\* the final variant stored the items SQL, SQL, Python
C23_Witness ==
    /\ fn.op = "qualifications"
    /\ fn.items = << <<"S","Q","L">>, <<"S","Q","L">>, <<"P","y","t","h","o","n">> >>
    /\ fn.out = <<"S","Q","L",";"," ","S","Q","L",";"," ","P","y","t","h","o","n">>


\* process_text was entered for record k and one of its model calls raised
CallFailed(k) ==
    /\ fn.transformers /\ fn.loads
    /\ ~returned_as_is(new_jobs_buffer[k].description)
    /\ fn.fails_at[k] \in 1..model_calls(new_jobs_buffer[k].description)

\* C24: process_text returns a description unchanged when it is empty, "N/A" or
\* shorter than the word threshold, and returns the original text when a model
\* call fails; a failed call never keeps a record, that one or another,
\* out of the rows that are then appended to the file.
C24_SummaryFailureKeepsRecord ==
    /\ fn.op = "summarized" =>
          \A k \in 1..Len(new_jobs_buffer) :
              LET text == new_jobs_buffer[k].description
                  words == Len(Split(text))
              IN  /\ (fn.transformers /\ fn.loads /\
                        (text = <<>> \/ text = NA \/ words < SUMMARY_MIN_WORDS \/ CallFailed(k)))
                         => fn.rows[k].description = text
                  /\ (\E j \in 1..Len(new_jobs_buffer) : CallFailed(j))
                         => /\ ~exc /\ Len(fn.rows) = Len(new_jobs_buffer)
                            /\ fn.rows[k].title = new_jobs_buffer[k].title
    /\ (pc = "done" /\ \E j \in 1..Len(new_jobs_buffer) : CallFailed(j))
          => /\ Len(out_file.rows) = Len(new_jobs_buffer)
             /\ \A k \in 1..Len(new_jobs_buffer) :
                   out_file.rows[k].title = new_jobs_buffer[k].title

\* two long descriptions: the model failed on the first and summarized the second, both were written
C24_Witness ==
    /\ pc = "done" /\ Len(new_jobs_buffer) = 2
    /\ CallFailed(1) /\ ~CallFailed(2) /\ ~returned_as_is(new_jobs_buffer[2].description)
    /\ out_file.rows[1].description = new_jobs_buffer[1].description
    /\ out_file.rows[2].description = Summary


\* positions inside scrape_linkedin_authenticated
LinkedInStates == {"li_kw", "li_while", "li_for", "li_after"}

\* C25: scrape_linkedin_authenticated is entered, and a LinkedIn search page is
\* requested, only once the prompt of the manual gate has returned, and the
\* prompt is reached only when the SimplyHired loop has ended for every keyword.
C25_LinkedInBehindGate ==
    [][ prog = "run_scraper" =>
          /\ (pc' \in LinkedInStates /\ pc \notin LinkedInStates) => pc = "gate"
          /\ (pc' = "gate" /\ pc # "gate") => (pc = "sh_kw" /\ kw > KEYWORDS_LEN)
          /\ pc = "gate" => pc' \in {"li_kw", "finally"}
          /\ pc \in {"sh_kw", "sh_while", "sh_for", "sh_after"} => pc' \notin LinkedInStates ]_vars

\* past the gate: the cards of a LinkedIn results page are being read
C25_Witness == prog = "run_scraper" /\ pc = "li_for" /\ ncards > 0 /\ ~exc


\* C26: in job_scan.py, once the pane is synchronized every detail field is read
\* on its own: whatever the pane lacks, salary, qualifications and date_posted
\* are still extracted, and a card with a strong title is saved.
C26_FieldsReadIndependently ==
    (ev.op = "card" /\ ev.site = "scan" /\ ev.synced = "yes") =>
        /\ {"description", "salary", "qualifications", "date_posted"} \subseteq ev.reads
        /\ ev.relevance = "KEEP" => ev.out = "saved"

\* the pane switched to a card with a strong title and has no description element
C26_Witness ==
    /\ ev.op = "card" /\ ev.site = "scan" /\ ev.synced = "yes" /\ ev.relevance = "KEEP"
    /\ ev.desc = NA /\ ev.reads = {"description"}


\* C27: each salary stage runs exactly when the stage before it gave "N/A": the
\* pane text is consulted whenever the compensation block gives no salary (the
\* block may be absent), the new tab is opened exactly when the pane gave none,
\* and the salary is "N/A" only if every stage gave "N/A".
C27_SalaryStagesChain ==
    pc = "done" =>
        LET comp == stage(fn.pane.comp)
            body == stage(fn.pane.body)
        IN  /\ ("pane_text" \in fn.stages) <=> (comp = NA)
            /\ fn.op = "retry" => (("new_tab" \in fn.stages) <=> (comp = NA /\ body = NA))
            /\ fn.salary = NA => (comp = NA /\ body = NA)

\* the final variant found a compensation block without a salary and stored "N/A",
\* although the text of the pane holds a salary
C27_Witness ==
    /\ pc = "done" /\ fn.op = "final"
    /\ fn.pane.comp # Absent /\ stage(fn.pane.comp) = NA /\ stage(fn.pane.body) # NA
    /\ fn.salary = NA

\* C28: when get_salary_by_opening_url_in_new_tab has returned, with a salary or
\* with "N/A", every window it opened is closed, the open window handles are
\* those from before the call, and the driver is on the original window.
C28_NewTabScoped ==
    (pc = "done" /\ "new_tab" \in fn.stages) =>
        /\ fn.opened \cap fn.window_handles = {}
        /\ fn.window_handles = {"w1"} \cup fn.others
        /\ fn.current = "w1"

\* the tab was opened next to another window, the extraction in it failed, the call returned "N/A"
C28_Witness ==
    /\ pc = "done" /\ fn.opened = {"w3"} /\ fn.others = {"w2"}
    /\ fn.raises /\ fn.salary = NA


\* C29: a failure while one card is processed (element not found, stale
\* reference, intercepted click, index error) is caught inside that card's
\* iteration of run_scraper's SimplyHired loop and of scrape_linkedin_authenticated:
\* the loop goes on with the next card, no exception leaves the loop, and
\* new_jobs_buffer, seen_urls and seen_signatures keep their content.
C29_CardFailureIsLocal ==
    [][ (prog = "run_scraper" /\ pc \in {"sh_for", "li_for"}) =>
          /\ ~exc'
          /\ (CardStep /\ ev'.out = "error") =>
                /\ pc' = pc /\ i' = i + 1 /\ kw' = kw /\ page_num' = page_num
                /\ new_jobs_buffer' = new_jobs_buffer
                /\ seen_urls' = seen_urls
                /\ seen_signatures' = seen_signatures ]_vars

\* a card of the LinkedIn phase failed after records had been buffered, and cards remain
C29_Witness ==
    /\ prog = "run_scraper" /\ pc = "li_for" /\ i < ncards
    /\ ev.op = "card" /\ ev.out = "error"
    /\ new_jobs_buffer # <<>> /\ ~exc

\* the last card iteration of the SimplyHired loop clicked its card and got a record back
ClickedWithRecord(e) == e.op = "card" /\ e.site = "sh" /\ e.desc # NoDesc

\* C30: in run_scraper's SimplyHired phase the description of every record that
\* parse_job_data returns is "N/A" or differs from the description extracted for
\* the card clicked immediately before it on that page, also when that card was
\* rejected as a duplicate or had no description.
C30_StrictDescription ==
    [][ (prog = "run_scraper" /\ pc = "sh_for" /\ ClickedWithRecord(ev)
            /\ CardStep /\ ClickedWithRecord(ev'))
          => (ev'.desc = NA \/ ev'.desc # ev.desc) ]_vars

\* a clicked card was rejected as a duplicate and prev_description did not take its description
C30_Witness ==
    /\ prog = "run_scraper" /\ pc = "sh_for" /\ i < ncards
    /\ ClickedWithRecord(ev) /\ ev.out \in {"dup_url", "dup_sig"}
    /\ ev.desc \notin {NA, prev_description}

\* C31: in both scrape loops a card whose title holds a BAD_KEYWORDS term, or is
\* classified SKIP, is never clicked, so no synchronization is started for it
C31_FilterBeforeClick ==
    (prog = "run_scraper" /\ ev.op = "card" /\ ev.title # <<>>
        /\ (TitleTerms[ev.title].bad
              \/ ~(TitleTerms[ev.title].strong \/ TitleTerms[ev.title].ambiguous)))
      => (~ev.clicked /\ ev.synced = "n/a")

\* a LinkedIn card with an excluded title, rejected by the title filter after the
\* click and the synchronization
C31_Witness ==
    /\ prog = "run_scraper" /\ pc = "li_for"
    /\ ev.op = "card" /\ ev.site = "li" /\ ev.out = "bad_kw"
    /\ ev.title = T_Intern /\ ev.clicked /\ ev.synced = "yes"


\* case-insensitive substring containment in either direction, on a non-empty pane text
LooseMatch(card_value, pane_text) ==
    /\ pane_text # <<>>
    /\ \/ Contains(Lower(pane_text), Lower(card_value))
       \/ Contains(Lower(card_value), Lower(pane_text))

\* C32: a poll tick of the final variant's synchronizers declares the pane synced exactly
\* when a designated identity field of the pane is non-empty and loosely matches the
\* card's value: the company or the title field in parse_job_data, the title field in
\* scrape_linkedin_authenticated
C32_LooseMatchEitherDirection ==
    (sy.op = "sync" /\ sy.tick >= 1) =>
        /\ prog = "parse_job_data" =>
              (sy.pane_matched <=>
                  \/ LooseMatch(sy.company, ElemText(sy.tr.stale.company))
                  \/ LooseMatch(sy.title, ElemText(sy.tr.stale.title)))
        /\ prog = "scrape_linkedin_authenticated" =>
              (sy.pane_matched <=>
                  LooseMatch(sy.title, fix_doubled_title(ElemText(sy.tr.stale.title))))

\* parse_job_data took the pane of "Data Analytics Lead" for the card "Data Analyst"
C32_Witness ==
    /\ prog = "parse_job_data" /\ pc = "extract" /\ sy.pane_matched
    /\ sy.title = T_DataAnalyst /\ sy.tr.stale.title = T_DataAnalytics
    /\ sy.company = C_Beta /\ ElemText(sy.tr.stale.company) = <<>>


\* neither the company nor the title element of the pane gives a text
NoIdentityField(pane) == ElemText(pane.company) = <<>> /\ ElemText(pane.title) = <<>>

\* C33: when no designated identity field is available in the pane, the synchronizer of
\* the final variant's parse_job_data falls back to the detail text: it is synced when the
\* text is non-empty and differs from the previous record's, and any non-empty text is
\* synced at once when there is no previous record
C33_FallbackToDetailText ==
    (prog = "parse_job_data" /\ sy.op = "sync" /\ sy.tick >= 1
        /\ NoIdentityField(sy.tr.stale)) =>
        (sy.pane_matched <=>
            /\ ElemText(sy.tr.stale.desc) # <<>>
            /\ (ElemText(sy.tr.stale.desc) # prev_description \/ prev_description = <<>>))

\* no previous record, a pane with a description and no company or title element:
\* parse_job_data gave up after the fifteen ticks
C33_Witness ==
    /\ prog = "parse_job_data" /\ pc = "return_none" /\ sy.tick = POLL_TICKS
    /\ NoIdentityField(sy.tr.stale) /\ sy.tr.stale.desc = D_Cook /\ prev_description = <<>>


\* the positions inside the keyword, page and card loops of run() and run_scraper,
\* the manual gate included
LoopStates ==
    {"sh_kw", "sh_while", "sh_for", "sh_after", "gate", "li_kw", "li_while", "li_for",
     "li_after", "scan_kw", "scan_while", "scan_for", "scan_after"}

\* C34: every run terminates: from any position in the keyword, page and card loops,
\* job_scan.py run() and run_scraper eventually leave all loops, quit the driver and
\* end, whatever the site lists, and they do not enter a loop again
C34_EveryRunTerminates ==
    /\ (pc \in LoopStates) ~> (pc \notin LoopStates /\ quits = 1)
    /\ [][pc \notin LoopStates => pc' \notin LoopStates]_vars
    /\ <>[](pc = "done")

\* run_scraper ended after the LinkedIn loop went past the page cap with a next-page
\* button on every page
C34_Witness ==
    /\ prog = "run_scraper" /\ pc = "done" /\ quits = 1 /\ ~exc
    /\ page_num = MAX_PAGES_PER_KEYWORD + 1 /\ kw = KEYWORDS_LEN + 1


\* C35: in job_scan.py the count of the final summary equals the number of records
\* persisted: at every point of run() total_saved is the number of data rows save_job
\* has written to the output file during this run, also when a write fails
C35_CountEqualsRowsWritten ==
    prog = "run" => total_saved = Len(Rows(out_file))

\* a card was counted as saved while the write of its row failed: the file was not created
C35_Witness ==
    /\ prog = "run" /\ ev.op = "card" /\ ev.out = "saved"
    /\ total_saved = 1 /\ ~out_file.exists


\* a company that is empty or one of "n/a", "na", "none", "null", whatever its case, after trimming
MissingCompany(company) ==
    \/ Strip(company) = <<>>
    \/ Lower(Strip(company)) \in { <<"n","/","a">>, <<"n","a">>, <<"n","o","n","e">>,
                                   <<"n","u","l","l">> }

\* C36: with REQUIRE_COMPANY enabled no record of new_jobs_buffer has a missing company,
\* whether the SimplyHired loop buffered it (company from the card) or
\* scrape_linkedin_authenticated did (company from the pane after sync)
C36_NoMissingCompanyBuffered ==
    (prog = "run_scraper" /\ REQUIRE_COMPANY) =>
        \A k \in 1..Len(new_jobs_buffer) : ~MissingCompany(new_jobs_buffer[k].company)

\* with one record buffered, a LinkedIn card whose pane synchronized was passed over
\* because the pane gave no usable company
C36_Witness ==
    /\ prog = "run_scraper" /\ REQUIRE_COMPANY /\ Len(new_jobs_buffer) = 1
    /\ ev.op = "card" /\ ev.site = "li" /\ ev.synced = "yes" /\ ev.out = "no_company"


\* new_jobs_buffer, total_saved_this_run, seen_urls and seen_signatures
Bookkeeping == <<new_jobs_buffer, total_saved_this_run, seen_urls, seen_signatures>>

SimplyHiredPhase == pc \in {"sh_kw", "sh_while", "sh_for", "sh_after"}

\* C37 as stated, read over both loops of run_scraper: a rejected card leaves the four
\* unchanged, the four change together and only in the step that accepts a record, and
\* during the SimplyHired phase total_saved_this_run is the length of new_jobs_buffer
C37_AsStated ==
    /\ [][ prog = "run_scraper" =>
             /\ (CardStep /\ ev'.out # "buffered") => UNCHANGED Bookkeeping
             /\ Bookkeeping' # Bookkeeping =>
                   /\ CardStep /\ ev'.out = "buffered"
                   /\ new_jobs_buffer' # new_jobs_buffer
                   /\ total_saved_this_run' # total_saved_this_run
                   /\ seen_urls' # seen_urls
                   /\ seen_signatures' # seen_signatures ]_vars
    /\ []((prog = "run_scraper" /\ SimplyHiredPhase)
             => total_saved_this_run = Len(new_jobs_buffer))

\* C37, amended: a rejected card leaves the four unchanged in both loops and they change
\* in an accepting step only; in the SimplyHired loop that step appends one record, adds
\* one to total_saved_this_run and inserts the record's URL and signature, so that
\* total_saved_this_run is the length of new_jobs_buffer during the SimplyHired phase;
\* in scrape_linkedin_authenticated it appends one record and inserts its signature,
\* inserts the URL only when the card had one, and leaves total_saved_this_run as it was
C37_RejectionFrame ==
    /\ [][ prog = "run_scraper" =>
             /\ (CardStep /\ ev'.out # "buffered") => UNCHANGED Bookkeeping
             /\ Bookkeeping' # Bookkeeping =>
                   /\ CardStep /\ ev'.out = "buffered" /\ Appends
                   /\ seen_signatures' = seen_signatures \cup {SigOf(Appended)}
                   /\ seen_signatures' # seen_signatures
                   /\ ev'.site = "sh" =>
                         /\ total_saved_this_run' = total_saved_this_run + 1
                         /\ seen_urls' = seen_urls \cup {Appended.url}
                         /\ seen_urls' # seen_urls
                   /\ ev'.site = "li" =>
                         /\ total_saved_this_run' = total_saved_this_run
                         /\ seen_urls' = IF Appended.url = NA THEN seen_urls
                                         ELSE seen_urls \cup {Appended.url} ]_vars
    /\ []((prog = "run_scraper" /\ SimplyHiredPhase)
             => total_saved_this_run = Len(new_jobs_buffer))

\* with one record buffered and counted, the next SimplyHired card was rejected after
\* the extraction as a duplicate signature
C37_Witness ==
    /\ prog = "run_scraper" /\ pc = "sh_for" /\ ev.op = "card" /\ ev.out = "dup_sig"
    /\ Len(new_jobs_buffer) = 1 /\ total_saved_this_run = 1
    /\ Cardinality(seen_urls) = 1 /\ Cardinality(seen_signatures) = 1


\* t is u + " " + u or u + u for some u
IsDoubled(t) ==
    LET h == Len(t) \div 2
    IN  \/ Len(t) % 2 = 0 /\ SubSeq(t, 1, h) = SubSeq(t, h + 1, Len(t))
        \/ Len(t) % 2 = 1 /\ t[h + 1] = " " /\ SubSeq(t, 1, h) = SubSeq(t, h + 2, Len(t))

\* single spaces between words, none at the ends
WhitespaceNormalized(t) ==
    /\ \A k \in 1..Len(t) : IsSpace(t[k]) =>
          (t[k] = " " /\ k > 1 /\ k < Len(t) /\ ~IsSpace(t[k + 1]))

\* the first half of C38: one level of repetition is removed and nothing else
OneLevelRemoved ==
    (WhitespaceNormalized(fn.input) /\ ~IsDoubled(fn.input)) =>
        /\ fn.op = "fix_spaced" => fn.out = fn.input
        /\ (fn.op = "fix_joined" /\ Len(fn.input) > 2) => fn.out = fn.input
        /\ (fn.op = "fix" /\ fn.n = 1) => fn.out = fn.input

====
